---- MODULE Spec2Model ----
(***************************************************************************)
(* A model of the reconciliation engine of the certified-establishments    *)
(* repository: text sanitizing, shape normalization, the dedup/merge loop, *)
(* the changelog differ (computeChangelogEntries), the tombstone baseline  *)
(* (getCurrentlyRemovedIds) and the refresh cycle (refreshCache) that      *)
(* persists their results.                                                 *)
(*                                                                         *)
(* JavaScript values are tagged records, one tag per type, so that values  *)
(* of different types can be compared and `typeof` can be modelled:        *)
(*   Str(s)  a string, s the sequence of its characters                    *)
(*   Num(n)  the finite number n / 100000 (coordinates are held in units   *)
(*           of 1e-5 degree, so the 1e-4 tolerance is 10 units)            *)
(*   Iso(t)  the ISO-8601 string new Date(t).toISOString(); such strings   *)
(*           compare as their instants do                                  *)
(*   Arr(a)  an array, a the sequence of its items                         *)
(*   Undef, Null, NaN                                                      *)
(* An object is a record of all the fields the model tracks; a field that  *)
(* is absent holds Undef.                                                  *)
(***************************************************************************)
EXTENDS Integers, Sequences, FiniteSets, TLC

VARIABLES
    \* ---- computeChangelogEntries called on its own ----
    current,        \* the `current` array (stamped in place by the call)
    previous,       \* the `previous` array
    syncTimestamp,  \* the instant of the call / of the running cycle
    result,         \* what the last call returned, with the arrays as it left them
    calls,          \* chained calls: how many were made
    firstSeen,      \* chained calls: id -> instant of the first call of the id's current run
    \* ---- the tombstone filter called on its own ----
    history,        \* changelog documents handed to the baseline replay
    rawRemoved,     \* the freshly computed removed list
    freshRemoved,   \* the filtered list
    \* ---- the refresh pipeline ----
    establishments, \* Firestore collection `establishments`: doc id -> data
    changelog,      \* Firestore collection `changelog`: one document per cycle
    duplicatesDoc,  \* Firestore document duplicates/latest
    metaDoc,        \* Firestore document meta/lastRefresh
    clock,          \* Date.now(), in cycles
    pc,             \* where the running refreshCache stands
    cycle,          \* the locals of the running refreshCache
    crashes,        \* how many cycles have thrown so far
    lastRun,        \* the upstream input and outcome of the cycle that ran last
    \* ---- the dedup loop of refreshCache run on its own ----
    normalized,     \* the `normalized` array; the loop has consumed a prefix of it
    seen,           \* the Map `seen`: its keys and values in insertion order
    duplicates,     \* the `duplicates` array
    \* ---- a library function called on its own ----
    args,           \* the arguments of the call
    returned,       \* what the call returned
    \* ---- the cache guard of GET ----
    requests,       \* the GET requests being handled: position and locals of each
    refreshes       \* the executions of refreshCache started so far

vars == <<current, previous, syncTimestamp, result, calls, firstSeen,
          history, rawRemoved, freshRemoved,
          establishments, changelog, duplicatesDoc, metaDoc, clock, pc, cycle,
          crashes, lastRun,
          normalized, seen, duplicates, args, returned, requests, refreshes>>

changelogVars == <<current, previous, syncTimestamp, result, calls, firstSeen>>
tombstoneVars == <<history, rawRemoved, freshRemoved>>
pipelineVars == <<establishments, changelog, duplicatesDoc, metaDoc, clock, pc,
                  cycle, crashes, lastRun>>
dedupVars == <<normalized, seen, duplicates>>
callVars == <<args, returned>>
guardVars == <<requests, refreshes>>
standaloneVars == <<dedupVars, callVars, guardVars>>

-----------------------------------------------------------------------------
(* JavaScript values *)

Str(s) == [str |-> s]
Num(n) == [num |-> n]
Iso(t) == [iso |-> t]
Arr(a) == [arr |-> a]
Undef == [undef |-> TRUE]
Null == [null |-> TRUE]
NaN == [nan |-> TRUE]

IsStr(v) == DOMAIN v = {"str"}
IsNum(v) == DOMAIN v = {"num"}
IsIso(v) == DOMAIN v = {"iso"}
IsArr(v) == DOMAIN v = {"arr"}

\* typeof v === 'string' (a timestamp is a string too)
IsString(v) == IsStr(v) \/ IsIso(v)
\* typeof v === 'number'
IsNumber(v) == IsNum(v) \/ v = NaN

\* Boolean(v): undefined, null, NaN, 0 and '' are falsy
Truthy(v) ==
    CASE v = Undef -> FALSE
      [] v = Null -> FALSE
      [] v = NaN -> FALSE
      [] IsNum(v) -> v.num # 0
      [] IsStr(v) -> v.str # <<>>
      [] OTHER -> TRUE

\* a ?? b
Coalesce(a, b) == IF a = Undef \/ a = Null THEN b ELSE a

\* Number.isFinite(v)
IsFinite(v) == IsNum(v)

Range(s) == {s[i] : i \in DOMAIN s}

\* Array.from(new Set(a)): the first occurrence of each item, in order
RECURSIVE Unique(_)
Unique(a) ==
    IF a = <<>> THEN <<>>
    ELSE LET init == Unique(SubSeq(a, 1, Len(a) - 1))
             last == a[Len(a)]
         IN  IF last \in Range(init) THEN init ELSE Append(init, last)

\* a.filter(keep)
Filter(a, keep(_)) == SelectSeq(a, keep)

\* a.map(f)
Map(a, f(_)) == [i \in DOMAIN a |-> f(a[i])]

\* const x = v; F(x): v is computed once and F reads the value
With(v, F(_)) == CHOOSE y \in {F(x) : x \in {v}} : TRUE

-----------------------------------------------------------------------------
(* Characters and strings *)

LowerLetters == <<"a", "b", "c", "d", "e", "f", "g", "h", "i", "j", "k", "l", "m",
                  "n", "o", "p", "q", "r", "s", "t", "u", "v", "w", "x", "y", "z">>
UpperLetters == <<"A", "B", "C", "D", "E", "F", "G", "H", "I", "J", "K", "L", "M",
                  "N", "O", "P", "Q", "R", "S", "T", "U", "V", "W", "X", "Y", "Z">>
DigitChars == <<"0", "1", "2", "3", "4", "5", "6", "7", "8", "9">>

\* the position of c in the sequence, 0 when it is not there
IndexOf(seq, c) ==
    IF \E i \in DOMAIN seq : seq[i] = c THEN CHOOSE i \in DOMAIN seq : seq[i] = c ELSE 0

\* c as a lower-case letter (1..26), an upper-case letter or a digit (1..10)
LowerIndex(c) == IndexOf(LowerLetters, c)
UpperIndex(c) == IndexOf(UpperLetters, c)
DigitIndex(c) == IndexOf(DigitChars, c)

IsLetter(c) == LowerIndex(c) > 0 \/ UpperIndex(c) > 0
IsDigit(c) == DigitIndex(c) > 0
IsHexDigit(c) == IsDigit(c) \/ c \in {"a", "b", "c", "d", "e", "f",
                                      "A", "B", "C", "D", "E", "F"}
\* \w or '-'
IsWordChar(c) == IsLetter(c) \/ IsDigit(c) \/ c \in {"_", "-"}
\* what String.prototype.trim strips
IsSpace(c) == c \in {" ", "\t", "\n"}

\* c.toLowerCase()
LowerChar(c) == With(UpperIndex(c), LAMBDA i : IF i > 0 THEN LowerLetters[i] ELSE c)

\* s.toLowerCase()
ToLowerCase(s) == [i \in DOMAIN s |-> LowerChar(s[i])]

RECURSIVE TrimStart(_)
TrimStart(s) == IF s # <<>> /\ IsSpace(Head(s)) THEN TrimStart(Tail(s)) ELSE s

RECURSIVE TrimEnd(_)
TrimEnd(s) ==
    IF s # <<>> /\ IsSpace(s[Len(s)]) THEN TrimEnd(SubSeq(s, 1, Len(s) - 1)) ELSE s

\* a trim that takes one blank at most from each end
TrimOne(s) ==
    IF s = <<>> THEN s
    ELSE IF IsSpace(s[1]) THEN (IF Len(s) > 1 /\ IsSpace(s[Len(s)])
                                THEN SubSeq(s, 2, Len(s) - 1) ELSE Tail(s))
    ELSE IF IsSpace(s[Len(s)]) THEN SubSeq(s, 1, Len(s) - 1)
    ELSE s

\* s.trim()
Trim(s) == TrimEnd(TrimStart(s))

\* the length of the longest prefix of s whose characters all satisfy ok
RunLength(s, ok(_)) ==
    CHOOSE k \in 0..Len(s) :
        /\ \A i \in 1..k : ok(s[i])
        /\ k = Len(s) \/ ~ok(s[k + 1])

\* the value of a digit of base 10 or 16
DigitValue(c) ==
    With(DigitIndex(c), LAMBDA d : IF d > 0 THEN d - 1 ELSE 9 + LowerIndex(LowerChar(c)))

\* Number.parseInt(s, base) of a string of digits of that base
RECURSIVE ParseInt(_, _)
ParseInt(s, base) ==
    IF s = <<>> THEN 0
    ELSE ParseInt(SubSeq(s, 1, Len(s) - 1), base) * base + DigitValue(s[Len(s)])

-----------------------------------------------------------------------------
(* decodeHtmlEntities and sanitizeText *)

\* HTML_ENTITY_MAP: entity name -> replacement. The entries whose replacement
\* is ASCII; the table's accented letters and symbols are entries of the same
\* shape.
HTML_ENTITY_MAP ==
    { << <<"a", "m", "p">>, <<"&">> >>,
      << <<"a", "p", "o", "s">>, <<"'">> >>,
      << <<"q", "u", "o", "t">>, <<"\"">> >>,
      << <<"l", "t">>, <<"<">> >>,
      << <<"g", "t">>, <<">">> >>,
      << <<"n", "b", "s", "p">>, <<" ">> >>,
      << <<"r", "s", "q", "u", "o">>, <<"'">> >>,
      << <<"l", "s", "q", "u", "o">>, <<"'">> >>,
      << <<"l", "d", "q", "u", "o">>, <<"\"">> >>,
      << <<"r", "d", "q", "u", "o">>, <<"\"">> >>,
      << <<"h", "e", "l", "l", "i", "p">>, <<".", ".", ".">> >>,
      << <<"n", "d", "a", "s", "h">>, <<"-">> >> }

\* a character the model's alphabet does not name
OtherChar == "?"

\* String.fromCodePoint(cp), for a code point it accepts
FromCodePoint(cp) ==
    CASE cp \in 48..57 -> DigitChars[cp - 47]
      [] cp \in 65..90 -> UpperLetters[cp - 64]
      [] cp \in 97..122 -> LowerLetters[cp - 96]
      [] cp = 9 -> "\t"
      [] cp = 10 -> "\n"
      [] cp = 32 -> " "
      [] cp = 35 -> "#"
      [] cp = 38 -> "&"
      [] cp = 45 -> "-"
      [] cp = 59 -> ";"
      [] cp = 95 -> "_"
      [] OTHER -> OtherChar

\* the largest code point String.fromCodePoint accepts (0x10FFFF)
MaxCodePoint == 1114111

\* whether the character after the first n of rest is ';'
Closes(rest, n) == n < Len(rest) /\ rest[n + 1] = ";"

\* The length of the entity body that HTML_ENTITY_PATTERN matches right after
\* an '&' (the text between '&' and ';'), or 0 when the pattern does not match
\* there. Each run is greedy and the character after it must be ';'.
NamedBodyLength(rest) ==
    With(RunLength(rest, IsWordChar), LAMBDA n : IF Closes(rest, n) THEN n ELSE 0)
HexBodyLength(rest) ==
    With(RunLength(Tail(Tail(rest)), IsHexDigit),
         LAMBDA n : IF n > 0 /\ Closes(rest, n + 2) THEN n + 2 ELSE 0)
DecimalBodyLength(rest) ==
    With(RunLength(Tail(rest), IsDigit),
         LAMBDA n : IF n > 0 /\ Closes(rest, n + 1) THEN n + 1 ELSE 0)
NumericBodyLength(rest) ==
    With(IF rest[2] = "x" THEN HexBodyLength(rest) ELSE 0,
         LAMBDA hex : IF hex > 0 THEN hex ELSE DecimalBodyLength(rest))
EntityBodyLength(rest) ==
    IF rest = <<>> THEN 0
    ELSE IF IsLetter(rest[1]) THEN NamedBodyLength(rest)
    ELSE IF rest[1] = "#" /\ Len(rest) >= 2 THEN NumericBodyLength(rest)
    ELSE 0

\* HTML_ENTITY_MAP[name] ?? match
NamedReplacement(name, match) ==
    With({e \in HTML_ENTITY_MAP : e[1] = name},
         LAMBDA hits : IF hits = {} THEN match ELSE (CHOOSE e \in hits : TRUE)[2])

\* the code point a numeric entity '#NNN' or '#xHHH' names
EntityCodePoint(entity) ==
    IF Len(entity) > 1 /\ LowerChar(entity[2]) = "x"
    THEN ParseInt(SubSeq(entity, 3, Len(entity)), 16)
    ELSE ParseInt(SubSeq(entity, 2, Len(entity)), 10)

\* the replacement callback of decodeHtmlEntities: match is '&' entity ';';
\* String.fromCodePoint throws beyond 0x10FFFF and the match is kept
EntityReplacement(entity, match) ==
    IF entity[1] = "#"
    THEN With(EntityCodePoint(entity),
              LAMBDA codePoint : IF codePoint <= MaxCodePoint
                                 THEN <<FromCodePoint(codePoint)>> ELSE match)
    ELSE NamedReplacement(ToLowerCase(entity), match)

\* value.replace(HTML_ENTITY_PATTERN, ...): every match, left to right, is
\* replaced; the replacement is not scanned again
RECURSIVE decodeHtmlEntities(_)
DecodeAt(value, n) ==
    IF n > 0
    THEN EntityReplacement(SubSeq(value, 2, n + 1), SubSeq(value, 1, n + 2))
            \o decodeHtmlEntities(SubSeq(value, n + 3, Len(value)))
    ELSE <<Head(value)>> \o decodeHtmlEntities(Tail(value))
decodeHtmlEntities(value) ==
    IF value = <<>> THEN <<>>
    ELSE With(IF Head(value) = "&" THEN EntityBodyLength(Tail(value)) ELSE 0,
              LAMBDA n : DecodeAt(value, n))

\* the decimal digits of a natural number
RECURSIVE NatDigits(_)
NatDigits(n) ==
    IF n < 10 THEN <<DigitChars[n + 1]>>
    ELSE NatDigits(n \div 10) \o <<DigitChars[(n % 10) + 1]>>

RECURSIVE StripZeros(_)
StripZeros(s) ==
    IF s # <<>> /\ s[Len(s)] = "0" THEN StripZeros(SubSeq(s, 1, Len(s) - 1)) ELSE s

\* the model's numbers are multiples of 1e-5
Scale == 10 * 10 * 10 * 10 * 10

\* n.toString() of the finite number n / Scale
Decimals(a) == StripZeros(Tail(NatDigits(Scale + (a % Scale))))
UnsignedToString(a) ==
    NatDigits(a \div Scale)
        \o With(Decimals(a), LAMBDA d : IF d = <<>> THEN <<>> ELSE <<".">> \o d)
NumberToString(n) ==
    IF n < 0 THEN <<"-">> \o UnsignedToString(-n) ELSE UnsignedToString(n)

\* the trimmed string, also when nothing is left of it
EvenWhenEmpty(trimmed) == Str(trimmed)

NonEmptyOrUndefined(trimmed) == IF Len(trimmed) > 0 THEN Str(trimmed) ELSE Undef

sanitizeText(value) ==
    IF IsStr(value) THEN With(Trim(decodeHtmlEntities(value.str)), NonEmptyOrUndefined)
    ELSE IF IsIso(value) THEN value   \* a timestamp holds no entity and no blank
    ELSE IF IsNumber(value)
    THEN (IF IsFinite(value) THEN Str(NumberToString(value.num)) ELSE Undef)
    ELSE Undef

-----------------------------------------------------------------------------
(* Numbers *)

\* The number an unsigned decimal literal digits[.digits] denotes, in units of
\* 1e-5 (decimals beyond the fifth are below the model's resolution); int is
\* the number of its integer digits.
UnsignedValue(body, int) ==
    ParseInt(SubSeq(body, 1, int), 10) * Scale
        + ParseInt(SubSeq(SubSeq(body, int + 2, Len(body)) \o <<"0", "0", "0", "0", "0">>,
                          1, 5), 10)

\* The number a decimal literal [+-]digits[.digits] or [+-].digits denotes.
DecimalValue(s) ==
    IF s[1] = "-"
    THEN -With(Tail(s), LAMBDA body : UnsignedValue(body, RunLength(body, IsDigit)))
    ELSE IF s[1] = "+"
    THEN With(Tail(s), LAMBDA body : UnsignedValue(body, RunLength(body, IsDigit)))
    ELSE UnsignedValue(s, RunLength(s, IsDigit))

\* The length of the longest prefix of body that is an unsigned decimal
\* literal digits[.[digits]] or .digits, or 0; int is the number of its
\* integer digits.
FractionLength(body, int) ==
    IF int < Len(body) /\ body[int + 1] = "."
    THEN With(RunLength(SubSeq(body, int + 2, Len(body)), IsDigit),
              LAMBDA frac : IF frac > 0 \/ int > 0 THEN 1 + frac ELSE 0)
    ELSE 0
UnsignedPrefixLength(body) ==
    With(RunLength(body, IsDigit), LAMBDA int : int + FractionLength(body, int))

\* The length of the longest prefix of s that is a decimal literal, or 0.
\* (The literals of the model have no exponent.)
DecimalPrefixLength(s) ==
    IF s # <<>> /\ (s[1] = "-" \/ s[1] = "+")
    THEN With(UnsignedPrefixLength(Tail(s)), LAMBDA n : IF n = 0 THEN 0 ELSE n + 1)
    ELSE UnsignedPrefixLength(s)

\* Number.parseFloat(s) of a string: the longest numeric prefix after leading
\* blanks, NaN when there is none
ParsePrefix(t, n) == IF n = 0 THEN NaN ELSE Num(DecimalValue(SubSeq(t, 1, n)))
ParseFloat(s) ==
    With(TrimStart(s), LAMBDA t : With(DecimalPrefixLength(t), LAMBDA n : ParsePrefix(t, n)))

\* `${v}`: a scalar as String(v) writes it, an array as its items joined by
\* commas (null and undefined items are empty), any other object as
\* '[object Object]'
RECURSIVE TemplateString(_), JoinItems(_)
ItemString(v) == IF v = Null \/ v = Undef THEN <<>> ELSE TemplateString(v)
JoinItems(a) ==
    IF a = <<>> THEN <<>>
    ELSE IF Len(a) = 1 THEN ItemString(a[1])
    ELSE ItemString(a[1]) \o <<",">> \o JoinItems(Tail(a))
TemplateString(v) ==
    CASE IsStr(v) -> v.str
      [] IsNum(v) -> NumberToString(v.num)
      [] v = NaN -> <<"N", "a", "N">>
      [] v = Null -> <<"n", "u", "l", "l">>
      [] v = Undef -> <<"u", "n", "d", "e", "f", "i", "n", "e", "d">>
      [] IsArr(v) -> JoinItems(v.arr)
      [] OTHER -> <<"[", "o", "b", "j", "e", "c", "t", " ",
                    "O", "b", "j", "e", "c", "t", "]">>

\* Number(s) of a string: it must be a decimal literal as a whole ('' is 0)
StringToNumber(t) ==
    IF t = <<>> THEN Num(0)
    ELSE IF DecimalPrefixLength(t) = Len(t) THEN Num(DecimalValue(t))
    ELSE NaN

\* Number(v)
ToNumber(v) ==
    CASE IsNum(v) -> v
      [] v = Null -> Num(0)
      [] IsStr(v) -> With(Trim(v.str), StringToNumber)
      [] IsArr(v) -> With(Trim(JoinItems(v.arr)), StringToNumber)
      [] OTHER -> NaN

\* values.sort((a, b) => a - b) of an array of finite numbers
RECURSIVE SortNumbers(_)
SortNumbers(a) ==
    IF a = <<>> THEN <<>>
    ELSE With(CHOOSE i \in DOMAIN a : \A j \in DOMAIN a : a[i].num <= a[j].num,
              LAMBDA m : <<a[m]>>
                            \o SortNumbers(SubSeq(a, 1, m - 1) \o SubSeq(a, m + 1, Len(a))))

\* Tolerance of areNumbersClose: 0.0001, in units of 1e-5
Tolerance == 10

Abs(n) == IF n < 0 THEN -n ELSE n

\* a comparison that lets a missing number go with any number
NumbersCloseOrMissing(aNum, bNum) ==
    IF ~IsFinite(aNum) \/ ~IsFinite(bNum) THEN TRUE
    ELSE Abs(aNum.num - bNum.num) <= Tolerance

\* the comparison of areNumbersClose, on the two numbers
NumbersClose(aNum, bNum) ==
    IF ~IsFinite(aNum) /\ ~IsFinite(bNum) THEN TRUE
    ELSE IF ~IsFinite(aNum) \/ ~IsFinite(bNum) THEN FALSE
    ELSE Abs(aNum.num - bNum.num) <= Tolerance

AsNumber(a) == IF IsNumber(a) THEN a ELSE ToNumber(a)

areNumbersClose(a, b) ==
    With(AsNumber(a), LAMBDA aNum : With(AsNumber(b), LAMBDA bNum : NumbersClose(aNum, bNum)))

\* n.toFixed(4) of the number n / Scale: the sign, the integer digits, a dot
\* and four decimals. A literal of five decimals ending in 5 rounds away from
\* zero: the doubles of the literals used here (48.85005, 48.85665) lie
\* above the tie.
StepsToFixed(steps) ==
    NatDigits(steps \div 10000) \o <<".">> \o Tail(NatDigits(10000 + (steps % 10000)))
\* a key part of three decimals
ToFixed3(n) ==
    IF n < 0 THEN <<"-">> \o NatDigits((50 - n) \div 100) ELSE NatDigits((n + 50) \div 100)

ToFixed4(n) ==
    IF n < 0 THEN <<"-">> \o StepsToFixed((5 - n) \div 10) ELSE StepsToFixed((n + 5) \div 10)

-----------------------------------------------------------------------------
(* Arrays of filters and categories *)

FiniteOrNothing(parsed) == IF IsFinite(parsed) THEN <<parsed>> ELSE <<>>

toNumberArray(value) ==
    IF IsArr(value)
    THEN Unique(Filter(Map(value.arr, ToNumber), IsFinite))
    ELSE IF IsNumber(value) THEN FiniteOrNothing(value)
    ELSE IF IsStr(value) /\ Len(Trim(value.str)) > 0
    THEN With(ToNumber(value), FiniteOrNothing)
    ELSE <<>>

TrimmedTemplate(v) == Str(Trim(TemplateString(v)))
NonEmptyStr(v) == Len(v.str) > 0
NonEmptyOrNothing(trimmed) == IF Len(trimmed) > 0 THEN <<Str(trimmed)>> ELSE <<>>

toStringArray(value) ==
    IF IsArr(value)
    THEN Unique(Filter(Map(value.arr, TrimmedTemplate), NonEmptyStr))
    ELSE IF IsStr(value) THEN With(Trim(value.str), NonEmptyOrNothing)
    ELSE <<>>

uniqueNumbers(values) == SortNumbers(Unique(values))

\* uniqueStrings without the Set: every non-empty value is kept
everyString(values) == Filter(values, NonEmptyStr)

uniqueStrings(values) == Unique(Filter(values, NonEmptyStr))

\* How often v occurs in the sequence a
Count(a, v) == Cardinality({i \in DOMAIN a : a[i] = v})

\* areStringArraysEqual / areNumberArraysEqual: equal lengths, and the sorted
\* copies agree index by index, that is, every value occurs as often in a as in b
areStringArraysEqual(a, b) ==
    IF Len(a) # Len(b) THEN FALSE
    ELSE \A v \in Range(a) \cup Range(b) : Count(a, v) = Count(b, v)

areNumberArraysEqual(a, b) ==
    IF Len(a) # Len(b) THEN FALSE
    ELSE SortNumbers(a) = SortNumbers(b)

-----------------------------------------------------------------------------
(* Entities: normalizeEstablishmentShape, createDedupKey, the merge rules *)

LowerOrEmpty(sanitized) == IF Truthy(sanitized) THEN ToLowerCase(sanitized.str) ELSE <<>>

normalizeComparableString(value) == With(sanitizeText(value), LowerOrEmpty)

\* Number.isFinite(v) ? v.toFixed(4) : 'undefined'
CoordinateKey(v) ==
    IF IsFinite(v) THEN ToFixed4(v.num)
    ELSE <<"u", "n", "d", "e", "f", "i", "n", "e", "d">>

createDedupKey(est) ==
    normalizeComparableString(est.name) \o <<"|">>
        \o normalizeComparableString(est.city) \o <<"|">>
        \o CoordinateKey(est.lat) \o <<"|">> \o CoordinateKey(est.lng)

\* a default of 0 for what is not finite
FiniteOrZero(candidate) == IF IsFinite(candidate) THEN candidate ELSE Num(0)

\* est?.lat as normalizeEstablishmentShape reads it: a number as it is,
\* anything else through parseFloat; what is not finite becomes undefined
FiniteOrUndefined(candidate) == IF IsFinite(candidate) THEN candidate ELSE Undef
CoordinateOf(value) ==
    IF IsNumber(value) THEN FiniteOrUndefined(value)
    ELSE With(ParseFloat(TemplateString(Coalesce(value, Str(<<>>)))), FiniteOrUndefined)

\* sanitizeText(est?.name) ?? (a number as a string, anything else as it is)
NameOf(value) ==
    With(sanitizeText(value),
         LAMBDA sanitized : IF sanitized # Undef THEN sanitized
                            ELSE IF IsNumber(value) THEN Str(TemplateString(value))
                            ELSE value)

\* sanitizeText(v) ?? v
TextOf(value) == With(sanitizeText(value), LAMBDA sanitized : Coalesce(sanitized, value))

normalizeEstablishmentShape(est) ==
    [est EXCEPT
        !.name = NameOf(est.name),
        !.address = TextOf(est.address),
        !.city = TextOf(est.city),
        !.source = TextOf(est.source),
        !.lat = CoordinateOf(est.lat),
        !.lng = CoordinateOf(est.lng),
        !.filter = Arr(toNumberArray(est.filter)),
        !.categories = Arr(toStringArray(Coalesce(est.categories, Arr(<<>>))))]

\* normalizeComparableString(a) === normalizeComparableString(b)
SameComparable(a, b) == normalizeComparableString(a) = normalizeComparableString(b)

\* a compatibility check that wants the coordinates equal
shouldMergeExactCoordinates(existing, incoming) ==
    /\ SameComparable(existing.source, incoming.source)
    /\ SameComparable(existing.name, incoming.name)
    /\ existing.lat = incoming.lat
    /\ existing.lng = incoming.lng

shouldMergeEstablishments(existing, incoming) ==
    IF ~SameComparable(existing.source, incoming.source) THEN FALSE
    ELSE IF ~SameComparable(existing.name, incoming.name) THEN FALSE
    ELSE /\ \/ SameComparable(existing.city, incoming.city)
            \/ ~Truthy(existing.city)
            \/ ~Truthy(incoming.city)
         /\ \/ SameComparable(existing.address, incoming.address)
            \/ ~Truthy(existing.address)
            \/ ~Truthy(incoming.address)
         /\ areNumbersClose(existing.lat, incoming.lat)
         /\ areNumbersClose(existing.lng, incoming.lng)

\* a comparison that takes any other timestamp for a later one
IsAnother(a, b) == IsIso(a) /\ IsIso(b) /\ a.iso # b.iso

\* a > b on two timestamps
IsLater(a, b) == IsIso(a) /\ IsIso(b) /\ a.iso > b.iso

\* the assignments of mergeEstablishment, once the incoming entry is normalized
MergeNormalized(existing, incomingNormalized) ==
    [existing EXCEPT
        !.filter = Arr(uniqueNumbers(toNumberArray(existing.filter)
                                        \o incomingNormalized.filter.arr)),
        !.categories = Arr(uniqueStrings(toStringArray(existing.categories)
                                            \o incomingNormalized.categories.arr)),
        !.name = IF Truthy(incomingNormalized.name) THEN incomingNormalized.name
                 ELSE @,
        !.address = IF ~Truthy(@) /\ Truthy(incomingNormalized.address)
                    THEN incomingNormalized.address ELSE @,
        !.city = IF ~Truthy(@) /\ Truthy(incomingNormalized.city)
                 THEN incomingNormalized.city ELSE @,
        !.source = IF ~Truthy(@) /\ Truthy(incomingNormalized.source)
                   THEN incomingNormalized.source ELSE @,
        !.lat = IF ~IsFinite(@) /\ IsFinite(incomingNormalized.lat)
                THEN incomingNormalized.lat ELSE @,
        !.lng = IF ~IsFinite(@) /\ IsFinite(incomingNormalized.lng)
                THEN incomingNormalized.lng ELSE @,
        !.updatedAt = IF Truthy(incomingNormalized.updatedAt)
                         /\ (~Truthy(@) \/ IsLater(incomingNormalized.updatedAt, @))
                      THEN incomingNormalized.updatedAt ELSE @]

\* mergeEstablishment mutates `existing`; the operator yields it as left
mergeEstablishment(existing, incoming) ==
    With(normalizeEstablishmentShape(incoming),
         LAMBDA incomingNormalized : MergeNormalized(existing, incomingNormalized))

\* JSON.parse(JSON.stringify(v)) of a field: NaN becomes null, and so does an
\* undefined or NaN array item; an undefined field is dropped (stays absent)
JsonItem(v) == IF v = Undef \/ v = NaN THEN Null ELSE v
JsonValue(v) ==
    IF v = NaN THEN Null
    ELSE IF IsArr(v) THEN Arr(Map(v.arr, JsonItem))
    ELSE v

\* cloneEstablishment: a new object, equal to the JSON round trip of est
cloneEstablishment(est) == [f \in DOMAIN est |-> JsonValue(est[f])]

-----------------------------------------------------------------------------
(* The changelog differ *)

\* sanitizeChangeValue: undefined becomes null, in an array too
UndefinedToNull(v) == IF v = Undef THEN Null ELSE v
sanitizeChangeValue(value) ==
    IF IsArr(value) THEN Arr(Map(value.arr, UndefinedToNull)) ELSE UndefinedToNull(value)

\* pushChange
Change(field, before, after) ==
    [field |-> field, before |-> sanitizeChangeValue(before),
     after |-> sanitizeChangeValue(after)]

\* the comparisons of collectModificationChanges, on the two normalized shapes
PlainChange(field, before, after) ==
    IF before # after THEN <<Change(field, before, after)>> ELSE <<>>

\* a comparison of the coordinates that tolerates nothing
ExactCoordinateChange(field, before, after) ==
    IF before # after THEN <<Change(field, before, after)>> ELSE <<>>

CoordinateChange(field, before, after) ==
    IF ~areNumbersClose(before, after) THEN <<Change(field, before, after)>> ELSE <<>>

CategoriesChange(before, after) ==
    IF ~areStringArraysEqual(before.arr, after.arr)
    THEN <<Change("categories", before, after)>> ELSE <<>>

FilterChange(before, after) ==
    IF ~areNumberArraysEqual(before.arr, after.arr)
    THEN <<Change("filter", before, after)>> ELSE <<>>

NormalizedChanges(oldNormalized, newNormalized) ==
    PlainChange("name", oldNormalized.name, newNormalized.name)
        \o PlainChange("address", oldNormalized.address, newNormalized.address)
        \o PlainChange("city", oldNormalized.city, newNormalized.city)
        \o PlainChange("source", oldNormalized.source, newNormalized.source)
        \o CoordinateChange("lat", oldNormalized.lat, newNormalized.lat)
        \o CoordinateChange("lng", oldNormalized.lng, newNormalized.lng)
        \o CategoriesChange(oldNormalized.categories, newNormalized.categories)
        \o FilterChange(oldNormalized.filter, newNormalized.filter)

collectModificationChanges(prev, next) ==
    With(normalizeEstablishmentShape(prev),
         LAMBDA oldNormalized :
            With(normalizeEstablishmentShape(next),
                 LAMBDA newNormalized : NormalizedChanges(oldNormalized, newNormalized)))

\* oldById.get(id): the Map built from the previous entries that have an id;
\* of two entries with one id the later one stays
LastOf(prev, hits) ==
    IF hits = {} THEN Undef ELSE prev[CHOOSE i \in hits : \A j \in hits : j <= i]

\* a Map that is keyed by the entries' names instead of their ids
OldByName(prev, id) == LastOf(prev, {i \in DOMAIN prev : prev[i].name = id})

OldById(prev, id) ==
    With({i \in DOMAIN prev : Truthy(prev[i].id) /\ prev[i].id = id},
         LAMBDA hits : LastOf(prev, hits))

\* stamps that ignore the createdAt the entry came with
StampEntryIgnoringOwn(entry, earlier, ts) ==
    [entry EXCEPT
        !.updatedAt = ts,
        !.removedAt = Null,
        !.createdAt = IF earlier # Undef /\ Truthy(earlier.createdAt)
                      THEN earlier.createdAt
                      ELSE ts]

\* stamps that never inherit the createdAt of the previous entity
StampEntryNeverInheriting(entry, earlier, ts) ==
    [entry EXCEPT
        !.updatedAt = ts,
        !.removedAt = Null,
        !.createdAt = IF ~Truthy(@) THEN ts ELSE @]

\* the lifecycle stamps of the first loop (utils.ts 403-409)
StampEntry(entry, earlier, ts) ==
    [entry EXCEPT
        !.updatedAt = ts,
        !.removedAt = Null,
        !.createdAt = IF earlier # Undef /\ Truthy(earlier.createdAt)
                      THEN earlier.createdAt
                      ELSE IF ~Truthy(@) THEN ts ELSE @]

\* a differ that reports every matched entity as modified
HasChangesAlways(changes) == TRUE

\* whether the first loop appends a Modification Entry (utils.ts 421)
HasChanges(changes) == Len(changes) > 0

\* a pass of the first loop that does not mark the id as seen
ReportEntryUnseen(acc, i, entry, earlier, changes) ==
    [current |-> [acc.current EXCEPT ![i] = entry],
     seenIds |-> acc.seenIds,
     added |-> IF earlier = Undef THEN Append(acc.added, cloneEstablishment(entry))
               ELSE acc.added,
     modified |-> IF earlier # Undef /\ HasChanges(changes)
                  THEN Append(acc.modified, [id |-> entry.id,
                                             before |-> cloneEstablishment(earlier),
                                             after |-> cloneEstablishment(entry),
                                             changes |-> changes])
                  ELSE acc.modified]

\* The rest of a pass of the first loop, once `entry` is stamped: the id is
\* marked seen, and the entry is reported as added or, when it changed, as
\* modified.
ReportEntry(acc, i, entry, earlier, changes) ==
    [current |-> [acc.current EXCEPT ![i] = entry],
     seenIds |-> IF Truthy(entry.id) THEN acc.seenIds \cup {entry.id} ELSE acc.seenIds,
     added |-> IF earlier = Undef THEN Append(acc.added, cloneEstablishment(entry))
               ELSE acc.added,
     modified |-> IF earlier # Undef /\ HasChanges(changes)
                  THEN Append(acc.modified, [id |-> entry.id,
                                             before |-> cloneEstablishment(earlier),
                                             after |-> cloneEstablishment(entry),
                                             changes |-> changes])
                  ELSE acc.modified]

CompareEntry(acc, i, entry, earlier) ==
    With(IF earlier = Undef THEN <<>> ELSE collectModificationChanges(earlier, entry),
         LAMBDA changes : ReportEntry(acc, i, entry, earlier, changes))

StampAndCompare(acc, i, earlier, ts) ==
    With(StampEntry(acc.current[i], earlier, ts),
         LAMBDA entry : CompareEntry(acc, i, entry, earlier))

\* One pass of the first loop, over current[i]; acc holds the arrays as the
\* passes before it left them.
ProcessEntry(acc, prev, i, ts) ==
    With(IF Truthy(acc.current[i].id) THEN OldById(prev, acc.current[i].id) ELSE Undef,
         LAMBDA earlier : StampAndCompare(acc, i, earlier, ts))

RECURSIVE ProcessCurrent(_, _, _, _)
ProcessCurrent(cur, prev, n, ts) ==
    IF n = 0
    THEN [current |-> cur, seenIds |-> {}, added |-> <<>>, modified |-> <<>>]
    ELSE With(ProcessCurrent(cur, prev, n - 1, ts),
              LAMBDA acc : ProcessEntry(acc, prev, n, ts))

\* a second loop that does not consult the ids seen in current
IsRemovedIgnoringSeen(previousEntry, seenIds) == Truthy(previousEntry.id)

\* whether the second loop reports previousEntry as removed (utils.ts 433)
IsRemoved(previousEntry, seenIds) ==
    Truthy(previousEntry.id) /\ previousEntry.id \notin seenIds

\* a second loop that stamps the previous entity itself and reports it
MarkRemovedInPlace(acc, i, ts) ==
    [previous |-> [acc.previous EXCEPT ![i] = [@ EXCEPT !.removedAt = ts,
                                                          !.updatedAt = ts]],
     removed |-> Append(acc.removed,
                        [acc.previous[i] EXCEPT !.removedAt = ts, !.updatedAt = ts])]

\* One pass of the second loop that reports previous[i]: the stamps go to a
\* clone, the previous array is left as it is.
MarkRemoved(acc, i, ts) ==
    [previous |-> acc.previous,
     removed |-> Append(acc.removed,
                        [cloneEstablishment(acc.previous[i]) EXCEPT
                            !.removedAt = ts, !.updatedAt = ts])]

RECURSIVE ProcessPrevious(_, _, _, _)
ProcessPrevious(prev, seenIds, n, ts) ==
    IF n = 0 THEN [previous |-> prev, removed |-> <<>>]
    ELSE With(ProcessPrevious(prev, seenIds, n - 1, ts),
              LAMBDA acc : IF IsRemoved(acc.previous[n], seenIds)
                           THEN MarkRemoved(acc, n, ts) ELSE acc)

\* what computeChangelogEntries returns, and the two arrays as it leaves them
ChangelogResult(first, second) ==
    [added |-> first.added,
     removed |-> second.removed,
     modified |-> first.modified,
     current |-> first.current,
     previous |-> second.previous]

\* computeChangelogEntries({current, previous, syncTimestamp})
computeChangelogEntries(cur, prev, ts) ==
    With(ProcessCurrent(cur, prev, Len(cur), ts),
         LAMBDA first :
            With(ProcessPrevious(prev, first.seenIds, Len(prev), ts),
                 LAMBDA second : ChangelogResult(first, second)))

-----------------------------------------------------------------------------
(* Inputs *)

NoResult == [called |-> FALSE]

Id(c) == Str(<<"a", "c", "h", "-", c>>)
Text(c) == Str(<<c>>)
Restaurant == Text("R")
Boucherie == Text("B")

\* the filter code n
Code(n) == Num(n * Scale)
\* the coordinate n * 1e-5 degree
Deg(n) == Num(n)

Entity(id, name, lat, categories, createdAt, updatedAt, removedAt) ==
    [id |-> id, name |-> name, address |-> Str(<<"1", " ", "r">>), city |-> Text("P"),
     source |-> Text("A"), lat |-> lat, lng |-> Deg(235220),
     categories |-> Arr(categories), filter |-> Arr(<<Code(29)>>),
     createdAt |-> createdAt, updatedAt |-> updatedAt, removedAt |-> removedAt]

\* What a caller passes as `current`: normalized entities as the dedup loop
\* leaves them; one has no id, one already carries a createdAt.
CurrentPool ==
    { Entity(Id("1"), Text("S"), Deg(4885660), <<Restaurant, Boucherie>>, Undef, Iso(2), Undef),
      Entity(Id("1"), Text("T"), Deg(4885660), <<Restaurant, Boucherie>>, Undef, Iso(2), Undef),
      Entity(Id("1"), Text("S"), Deg(4885665), <<Boucherie, Restaurant>>, Undef, Iso(2), Undef),
      Entity(Id("2"), Text("S"), Undef, <<Restaurant>>, Iso(0), Iso(2), Undef),
      Entity(Undef, Text("S"), Deg(4885660), <<Restaurant>>, Undef, Iso(2), Undef) }

\* What a caller passes as `previous`: stored entities; one was stored before
\* the lifecycle stamps existed (no createdAt), one has no id.
PreviousPool ==
    { Entity(Id("1"), Text("S"), Deg(4885660), <<Restaurant, Boucherie>>, Iso(1), Iso(1), Null),
      Entity(Id("1"), Text("S"), Deg(4885660), <<Restaurant, Boucherie>>, Undef, Undef, Undef),
      Entity(Id("1"), Str(<<" ", "S">>), Undef, <<Restaurant, Boucherie>>, Iso(0), Iso(1), Null),
      Entity(Id("2"), Text("S"), Undef, <<Restaurant>>, Iso(1), Iso(1), Null),
      Entity(Undef, Text("S"), Deg(4885660), <<Restaurant>>, Iso(1), Iso(1), Null) }

MaxCurrent == 3
MaxPrevious == 2

SeqsUpTo(S, n) == UNION {[1..k -> S] : k \in 0..n}

-----------------------------------------------------------------------------
(* Specification Spec: computeChangelogEntries called once on any two lists *)

NoCycle == [running |-> FALSE]
NoRun == [completed |-> FALSE, upstream |-> Undef]

PipelineIdle ==
    /\ establishments = <<>>
    /\ changelog = <<>>
    /\ duplicatesDoc = Undef
    /\ metaDoc = Undef
    /\ clock = 0
    /\ pc = "idle"
    /\ cycle = NoCycle
    /\ crashes = 0
    /\ lastRun = NoRun

TombstoneIdle ==
    /\ history = <<>>
    /\ rawRemoved = <<>>
    /\ freshRemoved = Undef

ChangelogIdle ==
    /\ current = <<>>
    /\ previous = <<>>
    /\ syncTimestamp = Iso(0)
    /\ result = NoResult
    /\ calls = 0
    /\ firstSeen = <<>>

NoSeen == [keys |-> <<>>, values |-> <<>>, at |-> 0, merges |-> 0]
NoCall == [called |-> FALSE]

DedupIdle ==
    /\ normalized = <<>>
    /\ seen = NoSeen
    /\ duplicates = <<>>

CallIdle ==
    /\ args = Undef
    /\ returned = NoCall

GuardIdle ==
    /\ requests = <<>>
    /\ refreshes = <<>>

StandaloneIdle == DedupIdle /\ CallIdle /\ GuardIdle

Init ==
    /\ current \in SeqsUpTo(CurrentPool, MaxCurrent)
    /\ previous \in SeqsUpTo(PreviousPool, MaxPrevious)
    /\ syncTimestamp = Iso(2)
    /\ result = NoResult
    /\ calls = 0
    /\ firstSeen = <<>>
    /\ TombstoneIdle
    /\ PipelineIdle
    /\ StandaloneIdle

\* A caller calls computeChangelogEntries({current, previous, syncTimestamp});
\* `result` keeps what it returned and the two arrays as they were passed.
CallComputeChangelog ==
    /\ ~result.called
    /\ \E r \in {computeChangelogEntries(current, previous, syncTimestamp)} :
        /\ result' = [called |-> TRUE,
                      args |-> [current |-> current, previous |-> previous],
                      added |-> r.added, removed |-> r.removed,
                      modified |-> r.modified]
        /\ current' = r.current
        /\ previous' = r.previous
    /\ UNCHANGED <<syncTimestamp, calls, firstSeen>>
    /\ UNCHANGED tombstoneVars
    /\ UNCHANGED pipelineVars
    /\ UNCHANGED standaloneVars

Next == CallComputeChangelog

Spec == Init /\ [][Next]_vars

-----------------------------------------------------------------------------
(* Claims on computeChangelogEntries called once (specification Spec) *)

\* the indices of seq that satisfy keep, in order
Indices(seq, keep(_)) == SelectSeq([i \in 1..Len(seq) |-> i], keep)

\* the entries of seq at the indices at, in that order
At(seq, at) == [k \in 1..Len(at) |-> seq[at[k]]]

\* entry has an id and some entity of prev has that id
MatchedIn(entry, prev) ==
    Truthy(entry.id) /\ \E j \in DOMAIN prev : prev[j].id = entry.id

\* at least one tracked field differs between the stored entity and the entry
TrackedFieldDiffers(stored, entry) ==
    \E old \in {normalizeEstablishmentShape(stored)} :
        \E new \in {normalizeEstablishmentShape(entry)} :
            \/ old.name # new.name
            \/ old.address # new.address
            \/ old.city # new.city
            \/ old.source # new.source
            \/ ~areNumbersClose(old.lat, new.lat)
            \/ ~areNumbersClose(old.lng, new.lng)
            \/ ~areStringArraysEqual(old.categories.arr, new.categories.arr)
            \/ ~areNumberArraysEqual(old.filter.arr, new.filter.arr)

\* the entity of prev that entry is compared with
StoredFor(entry, prev) == OldById(prev, entry.id)

IsAddedEntry(entry, prev) == ~MatchedIn(entry, prev)
IsModifiedEntry(entry, prev) ==
    MatchedIn(entry, prev) /\ TrackedFieldDiffers(StoredFor(entry, prev), entry)
IsUnchangedEntry(entry, prev) ==
    MatchedIn(entry, prev) /\ ~TrackedFieldDiffers(StoredFor(entry, prev), entry)

\* the three classes of the current list that was passed, as index sequences
ClassesOf(cur, prev) ==
    [added |-> Indices(cur, LAMBDA i : IsAddedEntry(cur[i], prev)),
     modified |-> Indices(cur, LAMBDA i : IsModifiedEntry(cur[i], prev)),
     unchanged |-> Indices(cur, LAMBDA i : IsUnchangedEntry(cur[i], prev))]

\* C1: computeChangelog partitions current. The added list is, in order, the
\* entities of current with no previous entity of the same id; the modified
\* list is, in order, those with a previous entity of the same id and a
\* tracked field differing; the others have a previous entity of the same id
\* and no tracked field differing; and the three counts add up to len(current).
C1_Partition ==
    result.called =>
        \E class \in {ClassesOf(result.args.current, result.args.previous)} :
            /\ result.added = At(current, class.added)
            /\ [k \in DOMAIN result.modified |-> result.modified[k].after]
                    = At(current, class.modified)
            /\ \A k \in DOMAIN result.modified :
                    /\ result.modified[k].id = result.modified[k].after.id
                    /\ result.modified[k].before
                            = StoredFor(result.modified[k].after, result.args.previous)
            /\ Len(result.added) + Len(result.modified) + Len(class.unchanged)
                    = Len(result.args.current)
            /\ \A i \in DOMAIN current :
                    Cardinality({c \in {"added", "modified", "unchanged"} :
                                    \E k \in DOMAIN class[c] : class[c][k] = i}) = 1

\* a call that met the three classes at once
C1_Witness ==
    /\ result.called
    /\ Len(result.added) = 1
    /\ Len(result.modified) = 1
    /\ Len(current) = 3

\* the removed entry the second loop makes of a previous entity
RemovedCopy(previousEntry, ts) ==
    [previousEntry EXCEPT !.removedAt = ts, !.updatedAt = ts]

\* C2 as stated: every entity of previous that no entity of current matches
\* by id appears in removed, as a copy whose removedAt and updatedAt are
\* syncTimestamp and whose other fields are unchanged; nothing else is removed.
C2_Original ==
    result.called =>
        \E unmatched \in {Indices(result.args.previous,
                                  LAMBDA j : \A i \in DOMAIN result.args.current :
                                        result.args.current[i].id
                                            # result.args.previous[j].id)} :
            result.removed = [k \in DOMAIN unmatched |->
                                RemovedCopy(result.args.previous[unmatched[k]],
                                            syncTimestamp)]

\* C2 amended: every entity of previous that has a non-empty id which no
\* entity of current carries appears in removed, in order, as a copy whose
\* removedAt and updatedAt are syncTimestamp and whose other fields are
\* unchanged; nothing else is in removed (an entity of previous without an id
\* is never reported).
C2_RemovalOfIdentified ==
    result.called =>
        \E unmatched \in {Indices(result.args.previous,
                                  LAMBDA j : /\ Truthy(result.args.previous[j].id)
                                             /\ \A i \in DOMAIN result.args.current :
                                                    result.args.current[i].id
                                                        # result.args.previous[j].id)} :
            result.removed = [k \in DOMAIN unmatched |->
                                RemovedCopy(result.args.previous[unmatched[k]],
                                            syncTimestamp)]

\* a call that removed one previous entity and kept another one out of removed
C2_Witness ==
    /\ result.called
    /\ Len(result.removed) = 1
    /\ Len(result.args.previous) = 2
    /\ result.removed[1].updatedAt = syncTimestamp
    /\ result.removed[1].createdAt = Iso(1)

\* C3: computeChangelog never mutates previous. After a call every entity of
\* the previous list has the fields and values it had before the call; the
\* stamps of a removal are on the entry of removed only.
C3_PreviousUntouched ==
    result.called =>
        /\ previous = result.args.previous
        /\ \A k \in DOMAIN result.removed :
                \E j \in DOMAIN previous :
                    /\ previous[j].id = result.removed[k].id
                    /\ previous[j].removedAt # syncTimestamp
                    /\ previous[j].updatedAt # syncTimestamp
                    /\ result.removed[k].removedAt = syncTimestamp

\* a call that reported a removal
C3_Witness == result.called /\ Len(result.removed) > 0 /\ Len(result.modified) > 0

\* C4 as stated: after the call every entity of current has updatedAt =
\* syncTimestamp and removedAt = null; its createdAt is that of the previous
\* entity with the same id when there is one, otherwise its own if set,
\* otherwise syncTimestamp; an added entry carries the same stamps.
C4_Original ==
    result.called =>
        /\ \A i \in DOMAIN current :
            /\ current[i].updatedAt = syncTimestamp
            /\ current[i].removedAt = Null
            /\ current[i].createdAt =
                    IF MatchedIn(result.args.current[i], result.args.previous)
                    THEN StoredFor(result.args.current[i], result.args.previous).createdAt
                    ELSE IF Truthy(result.args.current[i].createdAt)
                         THEN result.args.current[i].createdAt
                         ELSE syncTimestamp
        /\ \A k \in DOMAIN result.added :
                \E i \in DOMAIN current : result.added[k] = current[i]

\* the createdAt of the previous entity that entry inherits, if any
InheritedCreatedAt(entry, prev) ==
    IF MatchedIn(entry, prev) THEN StoredFor(entry, prev).createdAt ELSE Undef

\* C4 amended: after the call every entity of current has updatedAt =
\* syncTimestamp and removedAt = null; its createdAt is that of the previous
\* entity with the same id when there is one and it has a createdAt set,
\* otherwise its own createdAt if set, otherwise syncTimestamp; an added
\* entry carries the same stamps. Nothing else of the entity changes.
C4_Stamps ==
    result.called =>
        /\ \A i \in DOMAIN current :
            \E inherited \in {InheritedCreatedAt(result.args.current[i],
                                                 result.args.previous)} :
                current[i] =
                    [result.args.current[i] EXCEPT
                        !.updatedAt = syncTimestamp,
                        !.removedAt = Null,
                        !.createdAt = IF Truthy(inherited) THEN inherited
                                      ELSE IF Truthy(@) THEN @
                                      ELSE syncTimestamp]
        /\ \A k \in DOMAIN result.added :
                \E i \in DOMAIN current :
                    /\ result.added[k] = current[i]
                    /\ ~MatchedIn(current[i], result.args.previous)

\* a call whose current list had an entity matched by a previous entity that
\* has no createdAt, and an unseen entity that came with a createdAt
C4_Witness ==
    /\ result.called
    /\ \E i \in DOMAIN current :
            /\ MatchedIn(current[i], result.args.previous)
            /\ ~Truthy(StoredFor(current[i], result.args.previous).createdAt)
            /\ current[i].createdAt = syncTimestamp
    /\ \E k \in DOMAIN result.added : result.added[k].createdAt = Iso(0)

-----------------------------------------------------------------------------
(* Specification SpecChain: computeChangelogEntries called again and again,
   the stamped current list of each call being the previous list of the next *)

\* What the adapters hand over, cycle after cycle: entities without lifecycle
\* stamps but the updatedAt of the fetch; one already carries a createdAt.
FreshPool ==
    { Entity(Id("1"), Text("S"), Deg(4885660), <<Restaurant>>, Undef, Iso(0), Undef),
      Entity(Id("1"), Text("T"), Deg(4885660), <<Restaurant>>, Iso(0), Iso(0), Undef),
      Entity(Id("2"), Text("S"), Deg(4885660), <<Boucherie>>, Undef, Iso(0), Undef) }

\* the previous list of the first call: nothing, or a stored entity
FirstPrevious ==
    { <<>>,
      <<Entity(Id("2"), Text("S"), Deg(4885660), <<Boucherie>>, Iso(0), Iso(0), Null)>> }

ChainIds == {Id("1"), Id("2")}

MaxBatch == 2
MaxCalls == 3
MaxStep == 2

\* an id that the last call did not observe
NotObserved == [call |-> 0, since |-> 0, fresh |-> FALSE]

InitChain ==
    /\ current = <<>>
    /\ previous \in FirstPrevious
    /\ syncTimestamp = Iso(0)
    /\ result = NoResult
    /\ calls = 0
    /\ firstSeen = [id \in ChainIds |-> NotObserved]
    /\ TombstoneIdle
    /\ PipelineIdle
    /\ StandaloneIdle

\* the run of consecutive observations of id, after a call that observed batch
\* against prev: the run goes on, or starts with this call; it starts fresh
\* when prev has no entity of the id and no entity of the id in batch came
\* with a createdAt
RunAfter(run, id, batch, prev, call, ts) ==
    IF \A i \in DOMAIN batch : batch[i].id # id THEN NotObserved
    ELSE IF run.call # 0 THEN run
    ELSE [call |-> call, since |-> ts.iso,
          fresh |-> /\ \A j \in DOMAIN prev : prev[j].id # id
                    /\ \A i \in DOMAIN batch :
                            batch[i].id = id => ~Truthy(batch[i].createdAt)]

\* The next call of the chain: a later syncTimestamp, a new current list, and
\* as previous list the current list as the call before left it.
ChainCall(batch, ts) ==
    /\ calls < MaxCalls
    /\ ts.iso > syncTimestamp.iso
    /\ \E prev \in {IF calls = 0 THEN previous ELSE current} :
        /\ \E r \in {computeChangelogEntries(batch, prev, ts)} :
            /\ result' = [called |-> TRUE,
                          args |-> [current |-> batch, previous |-> prev],
                          added |-> r.added, removed |-> r.removed,
                          modified |-> r.modified]
            /\ current' = r.current
            /\ previous' = r.previous
        /\ firstSeen' = [id \in ChainIds |->
                            RunAfter(firstSeen[id], id, batch, prev, calls + 1, ts)]
    /\ syncTimestamp' = ts
    /\ calls' = calls + 1
    /\ UNCHANGED tombstoneVars
    /\ UNCHANGED pipelineVars
    /\ UNCHANGED standaloneVars

NextChain ==
    \E batch \in SeqsUpTo(FreshPool, MaxBatch) :
        \E step \in 1..MaxStep : ChainCall(batch, Iso(syncTimestamp.iso + step))

SpecChain == InitChain /\ [][NextChain]_vars

\* every record of the last call's results for id: the stamped entities of
\* current, the added entries and the `after` of the modification entries
ResultsFor(id) ==
    {current[i] : i \in {i \in DOMAIN current : current[i].id = id}}
        \cup {result.added[k] : k \in {k \in DOMAIN result.added :
                                            result.added[k].id = id}}
        \cup {result.modified[k].after : k \in {k \in DOMAIN result.modified :
                                                    result.modified[k].id = id}}

\* C5 as stated: for an entity observed in consecutive calls with increasing
\* syncTimestamp, each call's stamped current list being the next call's
\* previous list, createdAt is the syncTimestamp of the first of these calls
\* in every result and updatedAt the syncTimestamp of the last call that
\* observed it.
C5_Original ==
    \A id \in ChainIds :
        firstSeen[id].call # 0 =>
            \A e \in ResultsFor(id) :
                /\ e.createdAt = Iso(firstSeen[id].since)
                /\ e.updatedAt = syncTimestamp

\* C5 amended: for an entity that is new in the first of the consecutive
\* calls (no previous entity has its id) and comes without a createdAt of its
\* own, createdAt is the syncTimestamp of that first call in every result of
\* these calls, and updatedAt is the syncTimestamp of the last call that
\* observed it.
C5_Monotonicity ==
    \A id \in ChainIds :
        (firstSeen[id].call # 0 /\ firstSeen[id].fresh) =>
            \A e \in ResultsFor(id) :
                /\ e.createdAt = Iso(firstSeen[id].since)
                /\ e.updatedAt = syncTimestamp

\* an entity observed by every one of three calls in a row, with a gap between
\* two of the instants
C5_Witness ==
    /\ calls = 3
    /\ firstSeen[Id("1")].call = 1
    /\ firstSeen[Id("1")].fresh
    /\ syncTimestamp.iso > firstSeen[Id("1")].since + 2
    /\ \E i \in DOMAIN current : current[i].id = Id("1")

-----------------------------------------------------------------------------
(* The tombstone baseline and filter of the refresh route *)

\* a plain object that is not an array, by its values in insertion order
Obj(values) == [obj |-> values]
IsObj(v) == DOMAIN v = {"obj"}

\* an entity or any other object with named fields
IsRecord(v) ==
    DOMAIN v \cap {"str", "num", "iso", "arr", "obj", "undef", "null", "nan"} = {}

\* entry?.id, entry.status: the field, undefined when absent
Field(v, f) == IF IsRecord(v) /\ f \in DOMAIN v THEN v[f] ELSE Undef

toArrayLike(value) ==
    IF IsArr(value) THEN value.arr
    ELSE IF IsObj(value) THEN value.obj
    ELSE <<>>

\* the map step of extractEntryIds: the trimmed id, or null
TrimmedIdOrNull(trimmed) == IF Len(trimmed) > 0 THEN Str(trimmed) ELSE Null
EntryIdOrNull(entry) ==
    IF ~IsRecord(entry) THEN Null
    ELSE IF ~IsStr(Field(entry, "id")) THEN Null
    ELSE With(Trim(entry.id.str), TrimmedIdOrNull)

extractEntryIds(value) == Filter(Map(toArrayLike(value), EntryIdOrNull), Truthy)

\* the documents as the collection holds them, without the orderBy
InStoredOrder(docs) == SelectSeq(docs, LAMBDA d : IsIso(Field(d, "date")))

\* query(collection(db, 'changelog'), orderBy('date', 'asc')): the documents
\* that have a date, by ascending date
DatedBefore(docs, i) == {j \in DOMAIN docs : docs[j].date.iso < docs[i].date.iso}
OrderByDate(docs) ==
    With(SelectSeq(docs, LAMBDA d : IsIso(Field(d, "date"))),
         LAMBDA dated :
            [k \in DOMAIN dated |->
                dated[CHOOSE i \in DOMAIN dated :
                        Cardinality(DatedBefore(dated, i)) = k - 1]])

Completed == Str(<<"c", "o", "m", "p", "l", "e", "t", "e", "d">>)
Pending == Str(<<"p", "e", "n", "d", "i", "n", "g">>)

\* typeof data?.status === 'string' ? data.status : 'completed'
StatusOf(data) == IF IsString(Field(data, "status")) THEN data.status ELSE Completed

\* a replay that counts the cycles still pending too
ReplayDocumentAnyStatus(removedIds, data) ==
    (removedIds \ Range(extractEntryIds(Field(data, "added"))))
        \cup Range(extractEntryIds(Field(data, "removed")))

\* one pass of the loop of getCurrentlyRemovedIds over a document
ReplayDocument(removedIds, data) ==
    IF StatusOf(data) # Completed THEN removedIds
    ELSE (removedIds \ Range(extractEntryIds(Field(data, "added"))))
            \cup Range(extractEntryIds(Field(data, "removed")))

RECURSIVE ReplayDocuments(_, _)
ReplayDocuments(docs, n) ==
    IF n = 0 THEN {}
    ELSE With(ReplayDocuments(docs, n - 1),
              LAMBDA removedIds : ReplayDocument(removedIds, docs[n]))

\* getCurrentlyRemovedIds(), on the changelog collection as it stands
getCurrentlyRemovedIds(changelogDocs) ==
    With(OrderByDate(changelogDocs), LAMBDA docs : ReplayDocuments(docs, Len(docs)))

\* typeof entry?.id === 'string' ? entry.id.trim() : null
FilterId(entry) == IF IsStr(Field(entry, "id")) THEN Str(Trim(entry.id.str)) ELSE Null

\* a filter that forgets the ids it has kept in this cycle
KeepFreshUnseen(acc, entry, id, currentRemovedIds) ==
    IF ~Truthy(id) THEN [acc EXCEPT !.kept = Append(@, entry)]
    ELSE IF id \in currentRemovedIds THEN acc
    ELSE [acc EXCEPT !.kept = Append(@, entry)]

\* one call of the callback of removed.filter (part_003 220-228)
KeepFresh(acc, entry, id, currentRemovedIds) ==
    IF ~Truthy(id) THEN [acc EXCEPT !.kept = Append(@, entry)]
    ELSE IF id \in currentRemovedIds \/ id \in acc.seenRemovedIds THEN acc
    ELSE [kept |-> Append(acc.kept, entry),
          seenRemovedIds |-> acc.seenRemovedIds \cup {id}]

RECURSIVE FilterRemoved(_, _, _)
FilterRemoved(removed, currentRemovedIds, n) ==
    IF n = 0 THEN [kept |-> <<>>, seenRemovedIds |-> {}]
    ELSE With(FilterRemoved(removed, currentRemovedIds, n - 1),
              LAMBDA acc : KeepFresh(acc, removed[n], FilterId(removed[n]),
                                     currentRemovedIds))

\* a filter that ignores the baseline and keeps every entry
FreshRemovedUnfiltered(removed, currentRemovedIds) == removed

\* freshRemoved of refreshCache
FreshRemoved(removed, currentRemovedIds) ==
    FilterRemoved(removed, currentRemovedIds, Len(removed)).kept

-----------------------------------------------------------------------------
(* Specification SpecTombstone: the baseline replay and the filter applied to
   any changelog history and any computed removed list *)

\* ids as the changelog holds them: plain, padded, blank
IdX == Str(<<"x">>)
IdXPadded == Str(<<"x", " ">>)
IdY == Str(<<"y">>)
IdBlank == Str(<<" ">>)

Entry(id) == [id |-> id]

\* the added and removed lists of a changelog document
ListPool ==
    { [added |-> Arr(<<>>), removed |-> Arr(<<Entry(IdX)>>)],
      [added |-> Arr(<<Entry(IdX)>>), removed |-> Arr(<<>>)],
      [added |-> Arr(<<Entry(IdXPadded)>>), removed |-> Arr(<<Entry(IdY)>>)],
      [added |-> Arr(<<Entry(IdY)>>), removed |-> Arr(<<Entry(IdXPadded), Entry(IdBlank)>>)],
      [added |-> Undef, removed |-> Obj(<<Entry(IdY), Null>>)] }

\* a document written by a cycle (pending, then completed) or before the
\* status field existed (no status)
StatusPool == {Completed, Pending, Undef}

Document(date, status, lists) ==
    [date |-> Iso(date), status |-> status,
     added |-> lists.added, removed |-> lists.removed]

\* entries of a computed removed list
RemovedPool == {Entry(IdX), Entry(IdXPadded), Entry(IdY), Entry(IdBlank)}

MaxHistory == 3
MaxRemoved == 2

\* the ids the claims follow
TombstoneIds == {IdX, IdY}

InitTombstone ==
    /\ \E n \in 0..MaxHistory :
        \E status \in [1..n -> StatusPool] :
            \E lists \in [1..n -> ListPool] :
                history = [k \in 1..n |-> Document(k, status[k], lists[k])]
    /\ rawRemoved \in SeqsUpTo(RemovedPool, MaxRemoved)
    /\ freshRemoved = Undef
    /\ ChangelogIdle
    /\ PipelineIdle
    /\ StandaloneIdle

\* lines 218-228 of refreshCache on the computed removed list
FilterTombstoned ==
    /\ freshRemoved = Undef
    /\ freshRemoved' = Arr(FreshRemoved(rawRemoved, getCurrentlyRemovedIds(history)))
    /\ UNCHANGED <<history, rawRemoved>>
    /\ UNCHANGED changelogVars
    /\ UNCHANGED pipelineVars
    /\ UNCHANGED standaloneVars

NextTombstone == FilterTombstoned

SpecTombstone == InitTombstone /\ [][NextTombstone]_vars

\* the list of a changelog document names id (as the replay reads ids: trimmed)
Lists(list, id) ==
    \E k \in DOMAIN toArrayLike(list) :
        /\ IsStr(Field(toArrayLike(list)[k], "id"))
        /\ Trim(toArrayLike(list)[k].id.str) = id.str

\* the cycle of the document counts as completed
IsCompletedCycle(data) == StatusOf(data) = Completed

\* id was removed by a completed cycle of the history and no later completed
\* cycle added it again
Tombstoned(docs, id) ==
    \E k \in DOMAIN docs :
        /\ IsCompletedCycle(docs[k])
        /\ Lists(docs[k].removed, id)
        /\ \A m \in DOMAIN docs :
                (docs[m].date.iso > docs[k].date.iso /\ IsCompletedCycle(docs[m]))
                    => ~Lists(docs[m].added, id)

-----------------------------------------------------------------------------
(* The source adapters and the dedup loop of refreshCache *)

\* what a call that throws leaves instead of a value
Thrown == [thrown |-> TRUE]

\* v?.trim(): undefined for a missing value, the trimmed string for a string;
\* any other value has no trim method and the call throws
OptionalTrim(v) ==
    IF v = Undef \/ v = Null THEN Undef
    ELSE IF IsStr(v) THEN Str(Trim(v.str))
    ELSE Thrown

\* v || ''
OrEmpty(v) == IF Truthy(v) THEN v ELSE Str(<<>>)

\* `${address}, ${zip || ''} ${city || ''}`.trim()
AddressLine(address, zip, city) ==
    Str(Trim(TemplateString(address) \o <<",", " ">> \o TemplateString(OrEmpty(zip))
                \o <<" ">> \o TemplateString(OrEmpty(city))))

\* parseFloat(v)
ParseFloatOf(v) == ParseFloat(TemplateString(v))

Achahada == Str(<<"A", "c", "h", "a", "h", "a", "d", "a">>)
AVS == Str(<<"A", "V", "S">>)

normalizeAchahada(e, category, filter, updatedAt) ==
    [id |-> Str(<<"a", "c", "h", "-">> \o TemplateString(Field(e, "id"))),
     name |-> OptionalTrim(Field(e, "store")),
     lat |-> ParseFloatOf(Field(e, "lat")),
     lng |-> ParseFloatOf(Field(e, "lng")),
     address |-> AddressLine(Field(e, "address"), Field(e, "zip"), Field(e, "city")),
     city |-> Field(e, "city"),
     source |-> Achahada,
     categories |-> IF Truthy(category) THEN Arr(<<category>>) ELSE Arr(<<>>),
     filter |-> IF IsFinite(filter) THEN Arr(<<filter>>) ELSE Arr(<<>>),
     updatedAt |-> updatedAt,
     createdAt |-> Undef,
     removedAt |-> Undef]

normalizeAvs(e, category, filter, updatedAt) ==
    [id |-> Str(<<"a", "v", "s", "-">> \o TemplateString(Field(e, "id"))),
     name |-> OptionalTrim(Field(e, "name")),
     lat |-> ParseFloatOf(Field(e, "latitude")),
     lng |-> ParseFloatOf(Field(e, "longitude")),
     address |-> AddressLine(Field(e, "address"), Field(e, "zipCode"), Field(e, "city")),
     city |-> Field(e, "city"),
     source |-> AVS,
     categories |-> IF Truthy(category) THEN Arr(<<category>>) ELSE Arr(<<>>),
     filter |-> IF IsFinite(filter) THEN Arr(<<filter>>) ELSE Arr(<<>>),
     updatedAt |-> updatedAt,
     createdAt |-> Undef,
     removedAt |-> Undef]

\* the filters table of refreshCache, in the order of Object.keys
filters ==
    << [filterId |-> 29, label |-> Str(<<"R", "e", "s", "t", "a", "u", "r", "a", "n", "t">>)],
       [filterId |-> 30, label |-> Str(<<"B", "o", "u", "c", "h", "e", "r", "i", "e">>)],
       [filterId |-> 31, label |-> Str(<<"F", "o", "u", "r", "n", "i", "s", "s", "e", "u", "r">>)],
       [filterId |-> 32, label |-> Str(<<"C", "a", "s", "h">>)],
       [filterId |-> 34, label |-> Str(<<"D", "i", "s", "t", "r", "i", "b", "u", "t", "e", "u", "r">>)],
       [filterId |-> 36, label |-> Str(<<"M", "a", "r", "q", "u", "e">>)] >>

\* the three AVS partner requests: type, category
partners ==
    << [type |-> 1, label |-> filters[2].label],
       [type |-> 2, label |-> filters[1].label],
       [type |-> 3, label |-> filters[3].label] >>

\* achs.flatMap(...): the answers of the first n filter requests, normalized
RECURSIVE AchahadaNormalized(_, _, _)
AchahadaNormalized(achs, n, ts) ==
    IF n = 0 THEN <<>>
    ELSE AchahadaNormalized(achs, n - 1, ts)
            \o Map(achs[n], LAMBDA e : normalizeAchahada(e, filters[n].label,
                                                         Code(filters[n].filterId), ts))

\* [...avsB.map(...), ...avsR.map(...), ...avsF.map(...)]
RECURSIVE AvsNormalized(_, _, _)
AvsNormalized(avs, n, ts) ==
    IF n = 0 THEN <<>>
    ELSE AvsNormalized(avs, n - 1, ts)
            \o Map(avs[n], LAMBDA e : normalizeAvs(e, partners[n].label,
                                                   Code(partners[n].type), ts))

\* const normalized = [...achahadaNormalized, ...avsNormalized]
Normalized(upstream, ts) ==
    AchahadaNormalized(upstream.achs, Len(filters), ts)
        \o AvsNormalized(upstream.avs, Len(partners), ts)

\* a lookup that finds no key
SeenIndexOfNone(acc, key) == 0

\* seen.get(key): the index of the key in the Map, 0 when absent
SeenIndex(acc, key) == IndexOf(acc.keys, key)

\* a loop body in which the last entity of a key wins
DedupEntryLastWins(acc, normalizedEntry, at) ==
    IF at = 0
    THEN [acc EXCEPT !.keys = Append(@, createDedupKey(normalizedEntry)),
                     !.values = Append(@, normalizedEntry)]
    ELSE IF shouldMergeEstablishments(acc.values[at], normalizedEntry)
    THEN [acc EXCEPT !.values[at] = mergeEstablishment(@, normalizedEntry)]
    ELSE [acc EXCEPT !.values[at] = normalizedEntry,
                     !.duplicates =
                Append(@, [original |-> cloneEstablishment(acc.values[at]),
                           duplicate |-> cloneEstablishment(normalizedEntry)])]

\* the body of the dedup loop once the entry is normalized and its key known
DedupEntry(acc, normalizedEntry, at) ==
    IF at = 0
    THEN [acc EXCEPT !.keys = Append(@, createDedupKey(normalizedEntry)),
                     !.values = Append(@, normalizedEntry)]
    ELSE IF shouldMergeEstablishments(acc.values[at], normalizedEntry)
    THEN [acc EXCEPT !.values[at] = mergeEstablishment(@, normalizedEntry)]
    ELSE [acc EXCEPT !.duplicates =
                Append(@, [original |-> cloneEstablishment(acc.values[at]),
                           duplicate |-> cloneEstablishment(normalizedEntry)])]

\* a loop body that lets go of an entry whose key is taken
DedupFirstOnly(acc, normalizedEntry) ==
    IF SeenIndex(acc, createDedupKey(normalizedEntry)) # 0 THEN acc
    ELSE DedupEntry(acc, normalizedEntry, 0)

DedupNormalized(acc, normalizedEntry) ==
    With(SeenIndex(acc, createDedupKey(normalizedEntry)),
         LAMBDA at : DedupEntry(acc, normalizedEntry, at))

\* the dedup loop over the first n entries (part_003 180-200)
RECURSIVE DedupLoop(_, _)
DedupLoop(entries, n) ==
    IF n = 0 THEN [keys |-> <<>>, values |-> <<>>, duplicates |-> <<>>]
    ELSE With(DedupLoop(entries, n - 1),
              LAMBDA acc :
                With(normalizeEstablishmentShape(entries[n]),
                     LAMBDA normalizedEntry : DedupNormalized(acc, normalizedEntry)))

-----------------------------------------------------------------------------
(* The Firestore collections *)

\* the code unit of a character of a document id
CharCode(c) ==
    CASE IsDigit(c) -> 47 + DigitIndex(c)
      [] UpperIndex(c) # 0 -> 64 + UpperIndex(c)
      [] LowerIndex(c) # 0 -> 96 + LowerIndex(c)
      [] c = "-" -> 45
      [] OTHER -> 32

\* a < b for two strings
RECURSIVE StrLess(_, _)
StrLess(a, b) ==
    IF b = <<>> THEN FALSE
    ELSE IF a = <<>> THEN TRUE
    ELSE IF Head(a) = Head(b) THEN StrLess(Tail(a), Tail(b))
    ELSE CharCode(Head(a)) < CharCode(Head(b))

\* getDocs(collection(db, 'establishments')).docs.map((d) => d.data()): the
\* documents of the collection, by document id
GetDocs(col) ==
    [k \in 1..Cardinality(DOMAIN col) |->
        col[CHOOSE id \in DOMAIN col :
                Cardinality({o \in DOMAIN col : StrLess(o.str, id.str)}) = k - 1]]

\* batch.set(doc(estRef, e.id), e)
SetDoc(col, id, data) ==
    [k \in DOMAIN col \cup {id} |-> IF k = id THEN data ELSE col[k]]

\* a delete that leaves the document where it is
KeepDoc(col, id) == col

\* batch.delete(doc(estRef, id))
DeleteDoc(col, id) == [k \in DOMAIN col \ {id} |-> col[k]]

\* a committed batch of sets, over the first n entries of chunk
RECURSIVE SetAll(_, _, _)
SetAll(col, chunk, n) ==
    IF n = 0 THEN col
    ELSE With(SetAll(col, chunk, n - 1), LAMBDA c : SetDoc(c, chunk[n].id, chunk[n]))

\* a committed batch of deletes, over the first n entries of chunk
RECURSIVE DeleteAll(_, _, _)
DeleteAll(col, chunk, n) ==
    IF n = 0 THEN col
    ELSE With(DeleteAll(col, chunk, n - 1), LAMBDA c : DeleteDoc(c, chunk[n].id))

\* the size of a write batch
BatchSize == 500

\* list.slice(i, i + 500)
Slice(list, i) ==
    SubSeq(list, i + 1, IF i + BatchSize < Len(list) THEN i + BatchSize ELSE Len(list))

\* removed.filter((entry) => typeof entry?.id === 'string' && entry.id.trim().length > 0)
HasStringId(entry) == IsStr(Field(entry, "id")) /\ Len(Trim(entry.id.str)) > 0
RemovedWithIds(removed) == Filter(removed, HasStringId)

-----------------------------------------------------------------------------
(* Specification SpecSync: refresh cycles run one after another, each one
   completing or throwing at one of its awaits *)

\* raw records as the two sources answer them
RawAch(id, store, lat) ==
    [id |-> Str(<<id>>), store |-> store,
     lat |-> Str(<<"4", "8", ".", lat>>), lng |-> Str(<<"2", ".", "3">>),
     address |-> Str(<<"1", " ", "r">>), zip |-> Str(<<"7", "5">>), city |-> Text("P")]
RawAvs(id, name, lat) ==
    [id |-> Str(<<id>>), name |-> name,
     latitude |-> Str(<<"4", "8", ".", lat>>), longitude |-> Str(<<"2", ".", "3">>),
     address |-> Str(<<"1", " ", "r">>), zipCode |-> Str(<<"7", "5">>), city |-> Text("P")]

\* what the requests of a cycle answer: per Achahada filter and per AVS type
Answers(restaurants, boucheries, avsBoucheries) ==
    [achs |-> <<restaurants, boucheries, <<>>, <<>>, <<>>, <<>>>>,
     avs |-> <<avsBoucheries, <<>>, <<>>>>]

\* The upstream answers a cycle may get: no record; one store; two stores; the
\* other store alone; a store listed under two filters; a store id listed
\* under two names; a store that an AVS record rivals.
UpstreamPool ==
    { Answers(<<>>, <<>>, <<>>),
      Answers(<<RawAch("1", Text("S"), "8")>>, <<>>, <<>>),
      Answers(<<RawAch("1", Text("S"), "8"), RawAch("2", Text("U"), "9")>>, <<>>, <<>>),
      Answers(<<RawAch("2", Text("U"), "9")>>, <<>>, <<>>),
      Answers(<<RawAch("1", Text("S"), "8")>>, <<RawAch("1", Str(<<"S", " ">>), "8")>>, <<>>),
      Answers(<<RawAch("1", Text("S"), "8")>>, <<RawAch("1", Text("T"), "8")>>, <<>>),
      Answers(<<RawAch("1", Text("S"), "8")>>, <<>>, <<RawAvs("1", Text("s"), "8")>>) }

MaxCycles == 4
MaxCrashes == 1

InitSync ==
    /\ establishments = <<>>
    /\ changelog = <<>>
    /\ duplicatesDoc = Undef
    /\ metaDoc = Undef
    /\ clock = 0
    /\ pc = "idle"
    /\ cycle = NoCycle
    /\ crashes = 0
    /\ lastRun = NoRun
    /\ ChangelogIdle
    /\ TombstoneIdle
    /\ StandaloneIdle

\* the await the cycle stands at once i entries are written and j deleted
NextAwait(c) ==
    IF c.written < Len(c.deduped) THEN "write"
    ELSE IF c.deleted < Len(RemovedWithIds(c.removed)) THEN "delete"
    ELSE "duplicates"

\* a changelog document that is written as completed from the start
ChangelogDocumentCompleted(ts, diff, freshRemovedList) ==
    [date |-> ts,
     status |-> Completed,
     added |-> Arr(diff.added),
     removed |-> Arr(freshRemovedList),
     modified |-> Arr(diff.modified),
     stats |-> [added |-> Len(diff.added), removed |-> Len(freshRemovedList),
                modified |-> Len(diff.modified), total |-> Len(diff.current)]]

\* the changelog document of the cycle (part_003 240-252)
ChangelogDocument(ts, diff, freshRemovedList) ==
    [date |-> ts,
     status |-> Pending,
     added |-> Arr(diff.added),
     removed |-> Arr(freshRemovedList),
     modified |-> Arr(diff.modified),
     stats |-> [added |-> Len(diff.added), removed |-> Len(freshRemovedList),
                modified |-> Len(diff.modified), total |-> Len(diff.current)]]

\* the locals of refreshCache after the changelog document is added
Locals(upstream, dedup, diff, oldData, freshRemovedList, doc) ==
    [running |-> TRUE,
     upstream |-> upstream,
     deduped |-> diff.current,
     duplicates |-> dedup.duplicates,
     oldData |-> oldData,
     added |-> diff.added,
     removed |-> diff.removed,
     modified |-> diff.modified,
     freshRemoved |-> freshRemovedList,
     changelogDoc |-> doc,
     written |-> 0,
     deleted |-> 0,
     repeats |-> lastRun.completed /\ lastRun.upstream = upstream]

\* refreshCache from its start to the addDoc of the changelog document: the
\* fetches and adapters, the dedup loop, the comparison with the stored
\* entities, the tombstone filter and the pending changelog document.
BeginRefresh(upstream) ==
    /\ pc = "idle"
    /\ clock < MaxCycles
    /\ clock' = clock + 1
    /\ syncTimestamp' = Iso(clock + 1)
    /\ \E allNormalized \in {Normalized(upstream, Iso(clock + 1))} :
        \E dedup \in {DedupLoop(allNormalized, Len(allNormalized))} :
          \E oldData \in {GetDocs(establishments)} :
            \E diff \in {computeChangelogEntries(dedup.values, oldData, Iso(clock + 1))} :
              \E freshRemovedList \in {FreshRemoved(diff.removed,
                                                    getCurrentlyRemovedIds(changelog))} :
                /\ changelog' = Append(changelog,
                                       ChangelogDocument(Iso(clock + 1), diff,
                                                         freshRemovedList))
                /\ \E c \in {Locals(upstream, dedup, diff, oldData, freshRemovedList,
                                    Len(changelog) + 1)} :
                        /\ cycle' = c
                        /\ pc' = NextAwait(c)
    /\ UNCHANGED <<establishments, duplicatesDoc, metaDoc, crashes, lastRun>>
    /\ UNCHANGED <<current, previous, result, calls, firstSeen>>
    /\ UNCHANGED tombstoneVars
    /\ UNCHANGED standaloneVars

\* one pass of the loop that saves the deduplicated entities (part_003 259-266)
WriteBatch ==
    /\ pc = "write"
    /\ \E chunk \in {Slice(cycle.deduped, cycle.written)} :
            establishments' = SetAll(establishments, chunk, Len(chunk))
    /\ \E c \in {[cycle EXCEPT !.written = @ + BatchSize]} :
            /\ cycle' = c
            /\ pc' = NextAwait(c)
    /\ UNCHANGED <<changelog, duplicatesDoc, metaDoc, clock, crashes, lastRun>>
    /\ UNCHANGED changelogVars
    /\ UNCHANGED tombstoneVars
    /\ UNCHANGED standaloneVars

\* one pass of the loop that deletes the removed entities (part_003 274-281)
DeleteBatch ==
    /\ pc = "delete"
    /\ \E chunk \in {Slice(RemovedWithIds(cycle.removed), cycle.deleted)} :
            establishments' = DeleteAll(establishments, chunk, Len(chunk))
    /\ \E c \in {[cycle EXCEPT !.deleted = @ + BatchSize]} :
            /\ cycle' = c
            /\ pc' = NextAwait(c)
    /\ UNCHANGED <<changelog, duplicatesDoc, metaDoc, clock, crashes, lastRun>>
    /\ UNCHANGED changelogVars
    /\ UNCHANGED tombstoneVars
    /\ UNCHANGED standaloneVars

\* setDoc(doc(dupRef, 'latest'), ...) (part_003 285-290)
SaveDuplicates ==
    /\ pc = "duplicates"
    /\ duplicatesDoc' = [date |-> syncTimestamp, count |-> Len(cycle.duplicates),
                         duplicates |-> Arr(cycle.duplicates)]
    /\ pc' = "meta"
    /\ UNCHANGED <<establishments, changelog, metaDoc, clock, cycle, crashes, lastRun>>
    /\ UNCHANGED changelogVars
    /\ UNCHANGED tombstoneVars
    /\ UNCHANGED standaloneVars

\* setDoc(doc(db, 'meta', 'lastRefresh'), ...) (part_003 293-299)
SaveMeta ==
    /\ pc = "meta"
    /\ metaDoc' = [date |-> syncTimestamp, count |-> Len(cycle.deduped),
                   added |-> Len(cycle.added), removed |-> Len(cycle.freshRemoved),
                   modified |-> Len(cycle.modified)]
    /\ pc' = "status"
    /\ UNCHANGED <<establishments, changelog, duplicatesDoc, clock, cycle, crashes,
                   lastRun>>
    /\ UNCHANGED changelogVars
    /\ UNCHANGED tombstoneVars
    /\ UNCHANGED standaloneVars

\* setDoc(changelogDoc, {status: 'completed'}, {merge: true}), and the return
MarkCompleted ==
    /\ pc = "status"
    /\ changelog' = [changelog EXCEPT ![cycle.changelogDoc].status = Completed]
    /\ lastRun' = [completed |-> TRUE, upstream |-> cycle.upstream,
                   persisted |-> establishments]
    /\ pc' = "idle"
    /\ cycle' = NoCycle
    /\ UNCHANGED <<establishments, duplicatesDoc, metaDoc, clock, crashes>>
    /\ UNCHANGED changelogVars
    /\ UNCHANGED tombstoneVars
    /\ UNCHANGED standaloneVars

\* An await of the persistence steps rejects: refreshCache throws, its locals
\* are gone and what it wrote so far stays.
Crash ==
    /\ pc # "idle"
    /\ crashes < MaxCrashes
    /\ crashes' = crashes + 1
    /\ pc' = "idle"
    /\ cycle' = NoCycle
    /\ lastRun' = NoRun
    /\ UNCHANGED <<establishments, changelog, duplicatesDoc, metaDoc, clock>>
    /\ UNCHANGED changelogVars
    /\ UNCHANGED tombstoneVars
    /\ UNCHANGED standaloneVars

NextSync ==
    \/ \E upstream \in UpstreamPool : BeginRefresh(upstream)
    \/ WriteBatch
    \/ DeleteBatch
    \/ SaveDuplicates
    \/ SaveMeta
    \/ MarkCompleted
    \/ Crash

SpecSync == InitSync /\ [][NextSync]_vars

-----------------------------------------------------------------------------
(* Claims on the refresh cycles (specification SpecSync) *)

\* the ids the upstream answers give rise to
SyncIds == {Id("1"), Id("2")}

\* the records that a changelog document holds for id: its added and removed
\* entries and both sides of its modification entries
RecordsOfDocument(data, id) ==
    {data.added.arr[k] : k \in {k \in DOMAIN data.added.arr : data.added.arr[k].id = id}}
        \cup {data.removed.arr[k] :
                k \in {k \in DOMAIN data.removed.arr : data.removed.arr[k].id = id}}
        \cup {data.modified.arr[k].before :
                k \in {k \in DOMAIN data.modified.arr : data.modified.arr[k].id = id}}
        \cup {data.modified.arr[k].after :
                k \in {k \in DOMAIN data.modified.arr : data.modified.arr[k].id = id}}

\* the persisted entity of id, and the records of id in the changelog
\* documents of the completed cycles
RecordsOf(id) ==
    {establishments[i] : i \in DOMAIN establishments \cap {id}}
        \cup UNION {RecordsOfDocument(changelog[k], id) :
                        k \in {k \in DOMAIN changelog : changelog[k].status = Completed}}

\* C6 as stated: createdAt is set once and never overwritten. Over any
\* sequence of sync cycles, once an id has been stamped with a createdAt,
\* every later persisted, added, modified or removed record of the id carries
\* that createdAt, also when the id was absent for some cycles in between.
C6_Original ==
    \A id \in SyncIds : Cardinality({r.createdAt : r \in RecordsOf(id)}) <= 1

\* C6 amended: once an id is persisted in the establishments collection with
\* a createdAt, every later persisted, added, modified or removed record of
\* the id carries that createdAt for as long as the id stays in the
\* collection; an id that was removed (and so deleted from the collection)
\* and is observed again later is stamped anew.
C6_SetOnceWhilePersisted ==
    [][\A id \in DOMAIN establishments :
            /\ Truthy(establishments[id].createdAt)
            /\ id \in DOMAIN establishments' =>
                    establishments'[id].createdAt = establishments[id].createdAt
            /\ Len(changelog') > Len(changelog) =>
                    \A r \in RecordsOfDocument(changelog'[Len(changelog')], id) :
                        r.createdAt = establishments[id].createdAt]_vars

\* an entity that stayed persisted over three cycles and was modified, next
\* to one that was stamped later
C6_Witness ==
    /\ Id("1") \in DOMAIN establishments
    /\ establishments[Id("1")].createdAt = Iso(1)
    /\ establishments[Id("1")].updatedAt = Iso(3)
    /\ Id("2") \in DOMAIN establishments
    /\ establishments[Id("2")].createdAt = Iso(2)
    /\ \E k \in DOMAIN changelog : changelog[k].modified.arr # <<>>

\* the changelog document k is of a completed cycle and lists id in removed
ReportsRemoval(k, id) ==
    changelog[k].status = Completed /\ Lists(changelog[k].removed, id)

\* C8: the same removal is never reported across several sync cycles. Over any
\* sequence of cycles run one after another, each completing or throwing part
\* way through persistence, when two completed changelog records list id X in
\* removed, a completed record dated between them lists X in added.
C8_NoRepeatedRemoval ==
    \A id \in SyncIds :
        \A k \in DOMAIN changelog :
            \A m \in DOMAIN changelog :
                (/\ changelog[k].date.iso < changelog[m].date.iso
                 /\ ReportsRemoval(k, id)
                 /\ ReportsRemoval(m, id))
                    => \E j \in DOMAIN changelog :
                            /\ changelog[k].date.iso < changelog[j].date.iso
                            /\ changelog[j].date.iso < changelog[m].date.iso
                            /\ changelog[j].status = Completed
                            /\ Lists(changelog[j].added, id)

\* a store removed by two completed cycles, a cycle having thrown in between
C8_Witness ==
    /\ Cardinality({k \in DOMAIN changelog : ReportsRemoval(k, Id("1"))}) = 2
    /\ crashes = 1
    /\ pc = "idle"

\* C9 as stated: a half-applied cycle cannot suppress a later removal report.
\* Whatever cycles threw before, when an id is in the persisted establishments
\* at the start of a cycle and not in the cycle's deduplicated set, the
\* changelog record of the cycle lists the id in removed.
C9_Original ==
    cycle.running =>
        \A k \in DOMAIN cycle.oldData :
            (\A i \in DOMAIN cycle.deduped : cycle.deduped[i].id # cycle.oldData[k].id)
                => Lists(changelog[cycle.changelogDoc].removed, cycle.oldData[k].id)

\* the persisted entities but for their updatedAt
WithoutUpdatedAt(col) == [id \in DOMAIN col |-> [col[id] EXCEPT !.updatedAt = Undef]]

\* C10 as stated: engine idempotence. A second cycle on the same upstream
\* input, after a first cycle that completed, has empty added, removed and
\* modified lists and leaves every field of every persisted entity but
\* updatedAt as the first cycle persisted it.
C10_Original ==
    (cycle.running /\ cycle.repeats) =>
        /\ cycle.added = <<>>
        /\ cycle.removed = <<>>
        /\ cycle.modified = <<>>
        /\ pc \in {"duplicates", "meta", "status"} =>
                WithoutUpdatedAt(establishments) = WithoutUpdatedAt(lastRun.persisted)

-----------------------------------------------------------------------------
(* Specification SpecDedup: the dedup loop of refreshCache (part_003 180-200)  *)
(* run entry by entry over any list of adapter outputs                        *)

Listing(id, name, address, source, lat, category, filter) ==
    [id |-> id, name |-> name, address |-> address, city |-> Text("P"),
     source |-> source, lat |-> lat, lng |-> Deg(235220),
     categories |-> Arr(<<category>>), filter |-> Arr(<<Code(filter)>>),
     createdAt |-> Undef, updatedAt |-> Iso(1), removedAt |-> Undef]

RueUn == Str(<<"1", " ", "r">>)
RueDeux == Str(<<"2", " ", "r">>)

\* Adapter outputs that meet in the loop. The first four lie 0.00001 degree
\* apart in a row: the second and the third differ in their address, the third
\* and the fourth round to different four decimals (48.85004 to 48.8500 and
\* 48.85005 to 48.8501). One has another source, one a name in another case
\* and no address, one a coordinate that did not parse, one the id of the
\* first under another name.
ListingPool ==
    { Listing(Id("1"), Text("S"), RueUn, Achahada, Deg(4885002), Restaurant, 29),
      Listing(Id("2"), Text("S"), RueUn, Achahada, Deg(4885003), Boucherie, 30),
      Listing(Id("3"), Text("S"), RueDeux, Achahada, Deg(4885004), Boucherie, 30),
      Listing(Id("4"), Text("S"), RueDeux, Achahada, Deg(4885005), Restaurant, 29),
      Listing(Str(<<"a", "v", "s", "-", "1">>), Text("S"), RueUn, AVS, Deg(4885002),
              Boucherie, 1),
      Listing(Id("6"), Text("s"), Undef, Achahada, Deg(4885003), Restaurant, 29),
      Listing(Id("7"), Text("S"), RueUn, Achahada, NaN, Restaurant, 29),
      Listing(Id("1"), Text("T"), RueUn, Achahada, Deg(4885002), Boucherie, 30) }

MaxNormalized == 3

InitDedup ==
    /\ normalized \in SeqsUpTo(ListingPool, MaxNormalized)
    /\ seen = NoSeen
    /\ duplicates = <<>>
    /\ CallIdle
    /\ GuardIdle
    /\ ChangelogIdle
    /\ TombstoneIdle
    /\ PipelineIdle

\* the turn for normalizedEntry calls mergeEstablishment (part_003 189-190)
CallsMerge(normalizedEntry) ==
    \E k \in DOMAIN seen.keys :
        /\ seen.keys[k] = createDedupKey(normalizedEntry)
        /\ shouldMergeEstablishments(seen.values[k], normalizedEntry)

\* one turn of `for (const rawEntry of normalized)`; seen.at counts the turns
\* and seen.merges the calls of mergeEstablishment
DedupStep ==
    /\ seen.at < Len(normalized)
    /\ \E normalizedEntry \in {normalizeEstablishmentShape(normalized[seen.at + 1])} :
        \E acc \in {DedupNormalized([keys |-> seen.keys, values |-> seen.values,
                                     duplicates |-> duplicates],
                                    normalizedEntry)} :
            /\ seen' = [keys |-> acc.keys, values |-> acc.values, at |-> seen.at + 1,
                        merges |-> IF CallsMerge(normalizedEntry)
                                   THEN seen.merges + 1 ELSE seen.merges]
            /\ duplicates' = acc.duplicates
    /\ UNCHANGED <<normalized, callVars, guardVars>>
    /\ UNCHANGED changelogVars
    /\ UNCHANGED tombstoneVars
    /\ UNCHANGED pipelineVars

NextDedup == DedupStep

SpecDedup == InitDedup /\ [][NextDedup]_vars

-----------------------------------------------------------------------------
(* Claims on the dedup loop *)

\* the loop has run to its end over a list of exactly two entries
LoopOverTwo == Len(normalized) = 2 /\ seen.at = 2

\* two coordinates 0.00001 degree apart
OneStepApart(a, b) == IsFinite(a) /\ IsFinite(b) /\ Abs(a.num - b.num) = 1

\* same name, city and source, and coordinates that differ by 0.00001 degree
NearIdentical(a, b) ==
    /\ a.name = b.name
    /\ a.city = b.city
    /\ a.source = b.source
    /\ \/ OneStepApart(a.lat, b.lat) /\ (a.lng = b.lng \/ OneStepApart(a.lng, b.lng))
       \/ a.lat = b.lat /\ OneStepApart(a.lng, b.lng)

\* the loop left one canonical entity with the categories of both, and no pair
MergedIntoOne(a, b) ==
    /\ Len(seen.values) = 1
    /\ Range(seen.values[1].categories.arr)
            = Range(a.categories.arr) \cup Range(b.categories.arr)
    /\ Len(seen.values[1].categories.arr)
            = Cardinality(Range(a.categories.arr) \cup Range(b.categories.arr))
    /\ duplicates = <<>>

\* C11 as stated: any two normalized entities with the same name, city and
\* source and coordinates 0.00001 degree apart come out of the loop as one
\* canonical entity with the union of their categories and no duplicate pair.
C11_Original ==
    LoopOverTwo =>
        \E a \in {normalizeEstablishmentShape(normalized[1])} :
            \E b \in {normalizeEstablishmentShape(normalized[2])} :
                NearIdentical(a, b) => MergedIntoOne(a, b)

\* the addresses match but for case and blanks, or one side has none
AddressesAgree(a, b) ==
    \/ SameComparable(a.address, b.address)
    \/ ~Truthy(a.address)
    \/ ~Truthy(b.address)

\* C11: two normalized entities with the same name, city and source and
\* coordinates 0.00001 degree apart, whose coordinates round to the same four
\* decimals (the same identity key) and whose addresses agree or are missing
\* on one side, come out of the loop as one canonical entity with the union
\* of their categories, and no duplicate pair is recorded.
C11_MergeOfCandidates ==
    LoopOverTwo =>
        \E a \in {normalizeEstablishmentShape(normalized[1])} :
            \E b \in {normalizeEstablishmentShape(normalized[2])} :
                (/\ NearIdentical(a, b)
                 /\ createDedupKey(a) = createDedupKey(b)
                 /\ AddressesAgree(a, b))
                    => MergedIntoOne(a, b)

\* two listings 0.00001 degree apart were merged, and the categories united
C11_Witness ==
    /\ LoopOverTwo
    /\ NearIdentical(normalized[1], normalized[2])
    /\ normalized[1].categories # normalized[2].categories
    /\ Len(seen.values) = 1
    /\ Len(seen.values[1].categories.arr) = 2
    /\ duplicates = <<>>

\* the turn of the loop that is being taken handles this incoming entry
Incoming == normalizeEstablishmentShape(normalized[seen.at + 1])

\* the accumulator entry k has the key of the incoming entry and fails the
\* compatibility check against it
Collides(k, incoming) ==
    /\ seen.keys[k] = createDedupKey(incoming)
    /\ ~shouldMergeEstablishments(seen.values[k], incoming)

\* C12: in a turn of the loop whose incoming entity has the key of an
\* accumulator entry and fails the compatibility check against it, exactly one
\* pair {original, duplicate} is appended, equal field by field to the
\* accumulator entry and the incoming entity; the accumulator (its keys, its
\* entries and every field of them) is left as it was, so the incoming entity
\* does not enter it and the first-seen entity stays the canonical one.
C12_CollisionFlagged ==
    [][(seen.at < Len(normalized) /\ seen'.at = seen.at + 1) =>
            \E incoming \in {Incoming} :
                \A k \in DOMAIN seen.values :
                    Collides(k, incoming) =>
                        /\ duplicates' = Append(duplicates, [original |-> seen.values[k],
                                                             duplicate |-> incoming])
                        /\ seen'.keys = seen.keys
                        /\ seen'.values = seen.values]_vars

\* a collision of two sources was flagged: one entry in the accumulator, still
\* the Achahada one, and one pair with the AVS entity as the duplicate
C12_Witness ==
    /\ seen.at = 2
    /\ Len(seen.values) = 1
    /\ seen.values[1].source = Achahada
    /\ Len(duplicates) = 1
    /\ duplicates[1].original = seen.values[1]
    /\ duplicates[1].duplicate.source = AVS

-----------------------------------------------------------------------------
(* Specification SpecMerge: mergeEstablishment applied to a target and two    *)
(* incoming entities, in both orders                                          *)

Fournisseur == Text("F")

\* a listing of the one establishment, as a source reports it under some
\* categories and filters
Candidate(categories, filter) ==
    [id |-> Id("1"), name |-> Text("S"), address |-> RueUn, city |-> Text("P"),
     source |-> Achahada, lat |-> Deg(4885002), lng |-> Deg(235220),
     categories |-> Arr(categories), filter |-> Arr(filter),
     createdAt |-> Undef, updatedAt |-> Iso(1), removedAt |-> Undef]

\* compatible normalized entities: categories and filters that overlap, that
\* are disjoint, that come in another order, that are empty
CandidatePool ==
    { Candidate(<<Restaurant>>, <<Code(29)>>),
      Candidate(<<Boucherie>>, <<Code(30)>>),
      Candidate(<<Boucherie, Restaurant>>, <<Code(30), Code(29)>>),
      Candidate(<<Fournisseur>>, <<Code(3)>>),
      Candidate(<<Fournisseur, Restaurant>>, <<Code(31), Code(1)>>),
      Candidate(<<>>, <<>>) }

InitMerge ==
    /\ args \in [existing : CandidatePool, b : CandidatePool, c : CandidatePool]
    /\ returned = NoCall
    /\ DedupIdle
    /\ GuardIdle
    /\ ChangelogIdle
    /\ TombstoneIdle
    /\ PipelineIdle

\* mergeEstablishment(existing, first); mergeEstablishment(existing, second)
MergeBoth(existing, first, second) ==
    With(mergeEstablishment(existing, first),
         LAMBDA merged : mergeEstablishment(merged, second))

\* A caller merges b then c into one copy of the target, and c then b into
\* another copy
CallMergeInBothOrders ==
    /\ ~returned.called
    /\ \E bc \in {MergeBoth(args.existing, args.b, args.c)} :
        \E cb \in {MergeBoth(args.existing, args.c, args.b)} :
            returned' = [called |-> TRUE, bThenC |-> bc, cThenB |-> cb]
    /\ UNCHANGED <<args, dedupVars, guardVars>>
    /\ UNCHANGED changelogVars
    /\ UNCHANGED tombstoneVars
    /\ UNCHANGED pipelineVars

NextMerge == CallMergeInBothOrders

SpecMerge == InitMerge /\ [][NextMerge]_vars

\* the values of the three entities' arrays, as a set
UnionOfThree(field) ==
    Range(args.existing[field].arr) \cup Range(args.b[field].arr) \cup Range(args.c[field].arr)

\* the array holds the values of the set, each once
HoldsOnce(array, values) ==
    /\ Range(array.arr) = values
    /\ Len(array.arr) = Cardinality(values)

\* C13: merging b then c into a target and merging c then b into it give the
\* same set of categories and the same set of filters, each the union of the
\* three entities' sets, with no value lost and no value held twice.
C13_MergeCommutes ==
    returned.called =>
        /\ HoldsOnce(returned.bThenC.categories, UnionOfThree("categories"))
        /\ HoldsOnce(returned.cThenB.categories, UnionOfThree("categories"))
        /\ HoldsOnce(returned.bThenC.filter, UnionOfThree("filter"))
        /\ HoldsOnce(returned.cThenB.filter, UnionOfThree("filter"))

\* three entities with overlapping categories were merged in both orders, and
\* the two category arrays hold the same set in another order
C13_Witness ==
    /\ returned.called
    /\ args.b.categories = Arr(<<Boucherie, Restaurant>>)
    /\ args.c.categories = Arr(<<Fournisseur, Restaurant>>)
    /\ returned.bThenC.categories # returned.cThenB.categories
    /\ Len(returned.bThenC.categories.arr) = 3
    /\ Len(returned.bThenC.filter.arr) = 4

-----------------------------------------------------------------------------
(* Specification SpecDiff: computeChangelogEntries called on one stored       *)
(* entity and one current entity of the same id                               *)

\* the entity both sides start from
Stored ==
    [id |-> Id("1"), name |-> Text("S"), address |-> RueUn, city |-> Text("P"),
     source |-> Achahada, lat |-> Deg(4885660), lng |-> Deg(235220),
     categories |-> Arr(<<Restaurant, Boucherie>>),
     filter |-> Arr(<<Code(29), Code(30)>>),
     createdAt |-> Iso(1), updatedAt |-> Iso(1), removedAt |-> Null]

\* The stored entity and its variants: each differs from it in one field, by
\* another value, by a missing value, by a coordinate within, at and beyond
\* the tolerance, by the order of an array, or by a lifecycle stamp.
VariantPool ==
    { Stored,
      [Stored EXCEPT !.name = Text("T")],
      [Stored EXCEPT !.address = RueDeux],
      [Stored EXCEPT !.city = Text("Q")],
      [Stored EXCEPT !.source = AVS],
      [Stored EXCEPT !.lat = Deg(4885665)],
      [Stored EXCEPT !.lat = Deg(4885670)],
      [Stored EXCEPT !.lat = Deg(4885671)],
      [Stored EXCEPT !.lat = Undef],
      [Stored EXCEPT !.lng = Deg(235210)],
      [Stored EXCEPT !.lng = Deg(235209)],
      [Stored EXCEPT !.lng = Undef],
      [Stored EXCEPT !.categories = Arr(<<Boucherie, Restaurant>>)],
      [Stored EXCEPT !.categories = Arr(<<Restaurant>>)],
      [Stored EXCEPT !.filter = Arr(<<Code(30), Code(29)>>)],
      [Stored EXCEPT !.filter = Arr(<<Code(29), Code(31)>>)],
      [Stored EXCEPT !.createdAt = Iso(0)],
      [Stored EXCEPT !.updatedAt = Iso(0), !.removedAt = Iso(0)] }

InitDiff ==
    /\ current \in [1..1 -> VariantPool]
    /\ previous \in [1..1 -> VariantPool]
    /\ syncTimestamp = Iso(2)
    /\ result = NoResult
    /\ calls = 0
    /\ firstSeen = <<>>
    /\ TombstoneIdle
    /\ PipelineIdle
    /\ StandaloneIdle

SpecDiff == InitDiff /\ [][Next]_vars

\* one side has a coordinate and the other has none, or both have one and
\* they lie more than 1e-4 apart
CoordinateDiffers(before, after) ==
    IF IsFinite(before) /\ IsFinite(after)
    THEN Abs(before.num - after.num) > Tolerance
    ELSE IsFinite(before) # IsFinite(after)

\* the tracked fields in which the entity differs from the stored one
DifferingFields(before, after) ==
    {f \in {"name", "address", "city", "source"} : before[f] # after[f]}
        \cup {f \in {"lat", "lng"} : CoordinateDiffers(before[f], after[f])}
        \cup {f \in {"categories", "filter"} : Range(before[f].arr) # Range(after[f].arr)}

\* C14: for a current entity matched by id to a previous entity, modified gets
\* an entry exactly when name, address, city or source differ, or lat or lng
\* lie more than 1e-4 apart or are missing on one side only, or categories or
\* filter differ as sets; the order of the arrays, coordinates within 1e-4
\* and the lifecycle stamps make no entry; and the entry's changes name
\* exactly the differing tracked fields, each once.
C14_EntryIffTrackedFieldDiffers ==
    (result.called /\ Len(result.args.current) = 1 /\ Len(result.args.previous) = 1) =>
        \E fields \in {DifferingFields(result.args.previous[1], result.args.current[1])} :
            /\ result.added = <<>>
            /\ fields = {} => result.modified = <<>>
            /\ fields # {} =>
                /\ Len(result.modified) = 1
                /\ result.modified[1].id = result.args.current[1].id
                /\ {result.modified[1].changes[k].field :
                        k \in DOMAIN result.modified[1].changes} = fields
                /\ Len(result.modified[1].changes) = Cardinality(fields)

\* an entity that differs from the stored one in its name and in a coordinate
\* beyond the tolerance was reported with these two changes
C14_Witness ==
    /\ result.called
    /\ Len(result.args.current) = 1
    /\ Len(result.args.previous) = 1
    /\ result.args.previous[1].name # result.args.current[1].name
    /\ result.args.previous[1].lat = Deg(4885671)
    /\ result.args.current[1].lat = Deg(4885660)
    /\ Len(result.modified) = 1
    /\ Len(result.modified[1].changes) = 2

-----------------------------------------------------------------------------
(* Specification SpecShape: normalizeEstablishmentShape called on any raw     *)
(* record                                                                     *)

NumericText == Str(<<"4", "8", ".", "8", "5">>)
PaddedNumericText == Str(<<" ", "4", "8", ".", "8", "5", "x">>)
ZeroText == Str(<<"0">>)
FractionText == Str(<<".", "5">>)
BlankText == Str(<<" ">>)
EmptyText == Str(<<>>)
AmpersandText == Str(<<"&", "a", "m", "p", ";">>)
BlankEntityText == Str(<<" ", "&", "n", "b", "s", "p", ";", " ">>)
\* a numeric entity one above the last code point
BeyondUnicodeText == Str(<<"&", "#", "1", "1", "1", "4", "1", "1", "2", ";">>)

\* What a field of a raw record may hold: strings (numeric, numeric with
\* blanks and a tail, non-numeric, empty, blank, with entities), numbers, NaN,
\* null, nothing, arrays and an object.
RawValues ==
    { NumericText, PaddedNumericText, ZeroText, FractionText, Text("x"), BlankText,
      EmptyText, AmpersandText, BlankEntityText, BeyondUnicodeText,
      Deg(4885000), Deg(0), NaN, Null, Undef,
      Arr(<<>>), Arr(<<Str(<<" ", "R">>), Null, Code(29)>>), Obj(<<Code(1)>>) }

\* a raw record that holds u and v in every kind of field
RawRecord(u, v) ==
    [id |-> Id("1"), name |-> u, address |-> v, city |-> u, source |-> v,
     lat |-> u, lng |-> v, filter |-> u, categories |-> v,
     createdAt |-> Undef, updatedAt |-> Undef, removedAt |-> Undef]

InitShape ==
    /\ \E u \in RawValues : \E v \in RawValues : args = RawRecord(u, v)
    /\ returned = NoCall
    /\ DedupIdle
    /\ GuardIdle
    /\ ChangelogIdle
    /\ TombstoneIdle
    /\ PipelineIdle

\* A caller calls normalizeEstablishmentShape(est); `returned` keeps the
\* entity and the four sanitized texts the function computes on its way
CallNormalizeShape ==
    /\ ~returned.called
    /\ \E est \in {normalizeEstablishmentShape(args)} :
        returned' = [called |-> TRUE,
                     est |-> est,
                     sanitized |-> [name |-> sanitizeText(args.name),
                                    address |-> sanitizeText(args.address),
                                    city |-> sanitizeText(args.city),
                                    source |-> sanitizeText(args.source)]]
    /\ UNCHANGED <<args, dedupVars, guardVars>>
    /\ UNCHANGED changelogVars
    /\ UNCHANGED tombstoneVars
    /\ UNCHANGED pipelineVars

NextShape == CallNormalizeShape

SpecShape == InitShape /\ [][NextShape]_vars

\* the raw values of the kinds C15 names: number, NaN, string, null, missing
IsScalar(v) == IsNumber(v) \/ IsStr(v) \/ v = Null \/ v = Undef

\* what each scalar raw value parses to as a coordinate
ParsedCoordinate(v) ==
    CASE v = NumericText -> Deg(4885000)
      [] v = PaddedNumericText -> Deg(4885000)
      [] v = ZeroText -> Deg(0)
      [] v = FractionText -> Deg(50000)
      [] IsNum(v) -> v
      [] OTHER -> Undef

\* C15: whatever scalar a raw lat or lng holds (a number, NaN, a numeric or
\* non-numeric string, null, nothing), the normalized coordinate is a finite
\* number equal to what the input parses to, or undefined; it is never NaN,
\* and it is 0 only when the input itself parses to 0.
C15_CoordinateFiniteOrUndefined ==
    returned.called =>
        \A f \in {"lat", "lng"} :
            /\ IsFinite(returned.est[f]) \/ returned.est[f] = Undef
            /\ IsScalar(args[f]) => returned.est[f] = ParsedCoordinate(args[f])
            /\ returned.est[f] = Deg(0) => args[f] \in {Deg(0), ZeroText}

\* a record with a numeric string with a tail in lat and nothing in lng came
\* out with the parsed number and undefined
C15_Witness ==
    /\ returned.called
    /\ args.lat = PaddedNumericText
    /\ args.lng = Undef
    /\ returned.est.lat = Deg(4885000)
    /\ returned.est.lng = Undef

\* a non-empty string with no blank at either end
IsTrimmedText(v) ==
    /\ IsStr(v)
    /\ v.str # <<>>
    /\ ~IsSpace(v.str[1])
    /\ ~IsSpace(v.str[Len(v.str)])

\* a text field that holds neither a string nor a finite number
IsMalformedText(v) == ~IsStr(v) /\ ~IsFinite(v)

\* the four sanitized texts are undefined or non-empty trimmed strings
SanitizedTextsWellFormed ==
    \A f \in {"name", "address", "city", "source"} :
        returned.sanitized[f] = Undef \/ IsTrimmedText(returned.sanitized[f])

\* coordinates, filter and categories of the entity have their types
ShapeWellTyped ==
    /\ DOMAIN returned.est = DOMAIN args
    /\ \A f \in {"lat", "lng"} : IsFinite(returned.est[f]) \/ returned.est[f] = Undef
    /\ IsArr(returned.est.filter)
    /\ \A i \in DOMAIN returned.est.filter.arr : IsFinite(returned.est.filter.arr[i])
    /\ IsArr(returned.est.categories)
    /\ \A i \in DOMAIN returned.est.categories.arr :
            IsTrimmedText(returned.est.categories.arr[i])

\* C16 as stated: sanitizeText and normalizeShape return for every raw
\* record; sanitizeText gives a non-empty trimmed string or undefined; and a
\* malformed field comes out undefined (a text, a coordinate) or as an empty
\* array (filter, categories).
C16_Original ==
    returned.called =>
        /\ SanitizedTextsWellFormed
        /\ ShapeWellTyped
        /\ \A f \in {"name", "address", "city", "source"} :
                IsMalformedText(args[f]) => returned.est[f] = Undef

\* C16: sanitizeText and normalizeShape return for every raw record, so every
\* raw record gives an entity; sanitizeText gives a non-empty trimmed string
\* or undefined; a coordinate that does not parse comes out undefined; filter
\* and categories come out as arrays of finite numbers and of non-empty
\* trimmed strings, empty when the raw value is an object, null or missing;
\* and a text field that does not sanitize keeps its raw value (a NaN name
\* becomes the string 'NaN').
C16_NoRejectPath ==
    returned.called =>
        /\ SanitizedTextsWellFormed
        /\ ShapeWellTyped
        /\ \A f \in {"filter", "categories"} :
                (IsObj(args[f]) \/ args[f] = Null \/ args[f] = Undef)
                    => returned.est[f] = Arr(<<>>)
        /\ \A f \in {"name", "address", "city", "source"} :
                returned.est[f] =
                    IF returned.sanitized[f] # Undef THEN returned.sanitized[f]
                    ELSE IF f = "name" /\ args[f] = NaN THEN Str(<<"N", "a", "N">>)
                    ELSE args[f]

\* a record with an array as its name and a code point beyond Unicode in its
\* address came out as an entity that still holds the array
C16_Witness ==
    /\ returned.called
    /\ IsArr(args.name)
    /\ args.address = BeyondUnicodeText
    /\ returned.est.name = args.name
    /\ returned.est.address = BeyondUnicodeText
    /\ returned.est.lat = Undef

-----------------------------------------------------------------------------
(* Specification SpecAdapter: normalizeAchahada and normalizeAvs called on    *)
(* any raw source record                                                      *)

\* what the name field (store, name) of a raw record may hold
RawNames == {Str(<<" ", "S", " ">>), EmptyText, Undef, Null, Code(5)}
\* what a coordinate field may hold
RawCoordinates == {NumericText, Text("x"), Deg(4885000), Undef, Null}
\* what the id field may hold
RawIds == {Text("1"), Code(1)}
\* what the zip field may hold
RawZips == {Str(<<"7", "5">>), Undef}

RawAchahadaRecord(id, store, lat, zip) ==
    [id |-> id, store |-> store, lat |-> lat, lng |-> lat,
     address |-> RueUn, zip |-> zip, city |-> Text("P")]

RawAvsRecord(id, name, latitude, zipCode) ==
    [id |-> id, name |-> name, latitude |-> latitude, longitude |-> latitude,
     address |-> RueUn, zipCode |-> zipCode, city |-> Text("P")]

InitAdapter ==
    /\ \E id \in RawIds : \E name \in RawNames : \E lat \in RawCoordinates :
        \E zip \in RawZips :
            \/ args = [adapter |-> Achahada, e |-> RawAchahadaRecord(id, name, lat, zip),
                       category |-> filters[1].label, filter |-> Code(filters[1].filterId),
                       updatedAt |-> Iso(1)]
            \/ args = [adapter |-> AVS, e |-> RawAvsRecord(id, name, lat, zip),
                       category |-> partners[1].label, filter |-> Code(partners[1].type),
                       updatedAt |-> Iso(1)]
    /\ returned = NoCall
    /\ DedupIdle
    /\ GuardIdle
    /\ ChangelogIdle
    /\ TombstoneIdle
    /\ PipelineIdle

\* the outcome of building the object literal: the call throws when the
\* evaluation of a property throws
LiteralOutcome(entity) == IF entity.name = Thrown THEN Thrown ELSE entity

\* A caller (the map callbacks of part_003 167-175) calls the adapter of the
\* record's source
CallAdapter ==
    /\ ~returned.called
    /\ \E entity \in {IF args.adapter = Achahada
                      THEN normalizeAchahada(args.e, args.category, args.filter,
                                             args.updatedAt)
                      ELSE normalizeAvs(args.e, args.category, args.filter,
                                        args.updatedAt)} :
        returned' = [called |-> TRUE, value |-> LiteralOutcome(entity)]
    /\ UNCHANGED <<args, dedupVars, guardVars>>
    /\ UNCHANGED changelogVars
    /\ UNCHANGED tombstoneVars
    /\ UNCHANGED pipelineVars

NextAdapter == CallAdapter

SpecAdapter == InitAdapter /\ [][NextAdapter]_vars

\* 'ach-' or 'avs-' followed by the source's id
PrefixedId ==
    IF args.adapter = Achahada
    THEN Str(<<"a", "c", "h", "-">> \o TemplateString(args.e.id))
    ELSE Str(<<"a", "v", "s", "-">> \o TemplateString(args.e.id))

\* the raw latitude of the record
RawLatitude == IF args.adapter = Achahada THEN args.e.lat ELSE args.e.latitude

\* C17 as stated: whatever the types of the fields of a raw source record,
\* the adapter returns an entity with the prefixed id, the fixed source label
\* and updatedAt equal to the supplied timestamp, and a record whose
\* coordinates do not parse reaches the dedup loop with lat and lng undefined.
C17_Original ==
    returned.called =>
        /\ returned.value # Thrown
        /\ returned.value.id = PrefixedId
        /\ returned.value.source = args.adapter
        /\ returned.value.updatedAt = args.updatedAt
        /\ RawLatitude \in {Text("x"), Undef, Null} =>
                \E shaped \in {normalizeEstablishmentShape(returned.value)} :
                    shaped.lat = Undef /\ shaped.lng = Undef

-----------------------------------------------------------------------------
(* Specification SpecSanitize: sanitizeText applied to a string and to its    *)
(* own result                                                                 *)

\* the characters the strings are made of: a blank, a letter, a digit and the
\* three characters entities are written with
TextAlphabet == {" ", "a", "6", "&", "#", ";"}

MaxText == 4

\* an encoded entity: it decodes to the entity '&lt;'
EncodedEntityText == Str(<<"&", "a", "m", "p", ";", "l", "t", ";">>)

InitSanitize ==
    /\ \/ \E s \in SeqsUpTo(TextAlphabet, MaxText) : args = Str(s)
       \/ args = EncodedEntityText
    /\ returned = NoCall
    /\ DedupIdle
    /\ GuardIdle
    /\ ChangelogIdle
    /\ TombstoneIdle
    /\ PipelineIdle

\* A caller calls sanitizeText(sanitizeText(x))
CallSanitizeTwice ==
    /\ ~returned.called
    /\ \E once \in {sanitizeText(args)} :
        returned' = [called |-> TRUE, once |-> once, twice |-> sanitizeText(once)]
    /\ UNCHANGED <<args, dedupVars, guardVars>>
    /\ UNCHANGED changelogVars
    /\ UNCHANGED tombstoneVars
    /\ UNCHANGED pipelineVars

NextSanitize == CallSanitizeTwice

SpecSanitize == InitSanitize /\ [][NextSanitize]_vars

\* the string has a substring of the form &...;
HasEntityForm(s) == \E i \in DOMAIN s : \E j \in DOMAIN s : i < j /\ s[i] = "&" /\ s[j] = ";"

\* C18: for every string x with no substring of the form &...;, sanitizing
\* the result of sanitizeText(x) gives that result again (undefined stays
\* undefined).
C18_SanitizeIdempotent ==
    (returned.called /\ ~HasEntityForm(args.str)) => returned.twice = returned.once

\* a padded string with an ampersand and no semicolon was sanitized twice
C18_Witness ==
    /\ returned.called
    /\ args = Str(<<" ", " ", "&", "a">>)
    /\ returned.once = Str(<<"&", "a">>)
    /\ returned.twice = Str(<<"&", "a">>)

-----------------------------------------------------------------------------
(* Specification SpecGet: GET requests without force=true handled side by     *)
(* side (part_003 69-130); a refreshCache that was started ends by writing    *)
(* meta/lastRefresh (part_003 292-299)                                        *)

\* 24 h, in ticks of the clock (one tick is 12 h)
CACHE_DURATION == 2

MaxRequests == 3
MaxClock == 4

NewRequest == [pc |-> "new", now |-> 0, awaits |-> 0]

\* meta/lastRefresh as a refresh leaves it
MetaOf(ts) == [date |-> ts, count |-> 0, added |-> 0, removed |-> 0, modified |-> 0]

\* the store holds no meta document yet, or one that a refresh wrote at 0
InitGet ==
    /\ requests = [r \in 1..MaxRequests |-> NewRequest]
    /\ refreshes = <<>>
    /\ metaDoc \in {Undef, MetaOf(Iso(0))}
    /\ clock = 0
    /\ establishments = <<>>
    /\ changelog = <<>>
    /\ duplicatesDoc = Undef
    /\ pc = "idle"
    /\ cycle = NoCycle
    /\ crashes = 0
    /\ lastRun = NoRun
    /\ DedupIdle
    /\ CallIdle
    /\ ChangelogIdle
    /\ TombstoneIdle

GetFrame ==
    /\ UNCHANGED <<establishments, changelog, duplicatesDoc, pc, cycle, crashes, lastRun>>
    /\ UNCHANGED <<dedupVars, callVars>>
    /\ UNCHANGED changelogVars
    /\ UNCHANGED tombstoneVars

\* time passes
Tick ==
    /\ clock < MaxClock
    /\ clock' = clock + 1
    /\ UNCHANGED <<requests, refreshes, metaDoc>>
    /\ GetFrame

\* a request comes in: `now` is taken and getDoc(meta/lastRefresh) is awaited
Arrive(r) ==
    /\ requests[r].pc = "new"
    /\ requests' = [requests EXCEPT ![r].pc = "meta", ![r].now = clock]
    /\ UNCHANGED <<refreshes, metaDoc, clock>>
    /\ GetFrame

\* refreshCache() is called: it takes its syncTimestamp and runs on; what was
\* stored when it started is kept with it
StartRefresh ==
    Append(refreshes, [syncTimestamp |-> Iso(clock), running |-> TRUE,
                       startedAt |-> clock, stored |-> metaDoc])

\* metaData?.date and now - lastUpdate < CACHE_DURATION
IsFreshFor(metaData, now) ==
    /\ metaData # Undef
    /\ Truthy(metaData.date)
    /\ now - metaData.date.iso < CACHE_DURATION

\* getDoc answers. With a fresh date the request serves the stored data; with
\* a stale date it awaits getDocs(establishments) first; with no date it
\* calls refreshCache and awaits it.
ReadMeta(r) ==
    /\ requests[r].pc = "meta"
    /\ IF IsFreshFor(metaDoc, requests[r].now)
       THEN /\ requests' = [requests EXCEPT ![r].pc = "done"]
            /\ UNCHANGED refreshes
       ELSE IF metaDoc # Undef /\ Truthy(metaDoc.date)
       THEN /\ requests' = [requests EXCEPT ![r].pc = "stale"]
            /\ UNCHANGED refreshes
       ELSE /\ requests' = [requests EXCEPT ![r].pc = "first",
                                            ![r].awaits = Len(refreshes) + 1]
            /\ refreshes' = StartRefresh
    /\ UNCHANGED <<metaDoc, clock>>
    /\ GetFrame

\* getDocs answers in the stale branch: refreshCache() is started in the
\* background and the old data is served
ServeStale(r) ==
    /\ requests[r].pc = "stale"
    /\ requests' = [requests EXCEPT ![r].pc = "done"]
    /\ refreshes' = StartRefresh
    /\ UNCHANGED <<metaDoc, clock>>
    /\ GetFrame

\* a running refreshCache reaches its end: meta/lastRefresh gets its
\* syncTimestamp
FinishRefresh(k) ==
    /\ refreshes[k].running
    /\ refreshes' = [refreshes EXCEPT ![k].running = FALSE]
    /\ metaDoc' = MetaOf(refreshes[k].syncTimestamp)
    /\ UNCHANGED <<requests, clock>>
    /\ GetFrame

\* the refreshCache that a first-load request awaits has ended
ServeFirst(r) ==
    /\ requests[r].pc = "first"
    /\ ~refreshes[requests[r].awaits].running
    /\ requests' = [requests EXCEPT ![r].pc = "done"]
    /\ UNCHANGED <<refreshes, metaDoc, clock>>
    /\ GetFrame

NextGet ==
    \/ Tick
    \/ \E r \in 1..MaxRequests : Arrive(r)
    \/ \E r \in 1..MaxRequests : ReadMeta(r)
    \/ \E r \in 1..MaxRequests : ServeStale(r)
    \/ \E r \in 1..MaxRequests : ServeFirst(r)
    \/ \E k \in DOMAIN refreshes : FinishRefresh(k)

SpecGet == InitGet /\ [][NextGet]_vars

\* the stored date was at least 24 h old when refresh k was started
StartedOnStale(k) ==
    /\ refreshes[k].stored # Undef
    /\ refreshes[k].startedAt - refreshes[k].stored.date.iso >= CACHE_DURATION

\* the stored date was younger than 24 h when refresh k was started
StartedOnFresh(k) ==
    /\ refreshes[k].stored # Undef
    /\ refreshes[k].startedAt - refreshes[k].stored.date.iso < CACHE_DURATION

\* C19 as stated: of the refreshes started while one stale date was stored
\* (one window, not yet renewed) there is at most one, and no refresh is
\* started while the stored date is younger than 24 h.
C19_Original ==
    /\ \A i \in DOMAIN refreshes : \A j \in DOMAIN refreshes :
            (/\ i < j
             /\ StartedOnStale(i)
             /\ StartedOnStale(j))
                => refreshes[i].stored # refreshes[j].stored
    /\ \A k \in DOMAIN refreshes : ~StartedOnFresh(k)

-----------------------------------------------------------------------------
(* Specification SpecBaseline: getCurrentlyRemovedIds on any changelog        *)
(* collection, its documents held in any order (part_003 47-67)               *)

\* the collection holds its documents in an order of its own: the document
\* in place k carries the date order[k]
InitBaseline ==
    /\ \E n \in 0..MaxHistory :
        \E status \in [1..n -> StatusPool] :
            \E lists \in [1..n -> ListPool] :
                \E order \in Permutations(1..n) :
                    args = Arr([k \in 1..n |->
                                    Document(order[k], status[k], lists[k])])
    /\ returned = NoCall
    /\ DedupIdle
    /\ GuardIdle
    /\ ChangelogIdle
    /\ TombstoneIdle
    /\ PipelineIdle

\* refreshCache calls getCurrentlyRemovedIds() (part_003 218)
CallGetCurrentlyRemovedIds ==
    /\ ~returned.called
    /\ returned' = [called |-> TRUE, value |-> getCurrentlyRemovedIds(args.arr)]
    /\ UNCHANGED <<args, dedupVars, guardVars>>
    /\ UNCHANGED changelogVars
    /\ UNCHANGED tombstoneVars
    /\ UNCHANGED pipelineVars

NextBaseline == CallGetCurrentlyRemovedIds

SpecBaseline == InitBaseline /\ [][NextBaseline]_vars

\* the status field of the document is the string "completed"
HasStatusCompleted(data) == Field(data, "status") = Completed

\* document k lists id, and of the documents that count and list id in added
\* or removed it is the one with the latest date
IsLatestListing(docs, counts, k, id) ==
    /\ k \in counts
    /\ Lists(docs[k].added, id) \/ Lists(docs[k].removed, id)
    /\ \A m \in counts :
            docs[m].date.iso > docs[k].date.iso
                => ~(Lists(docs[m].added, id) \/ Lists(docs[m].removed, id))

\* id is in the baseline exactly when the latest document that counts and
\* lists it lists it in removed
BaselineIsLatest(docs, counts, baseline) ==
    \A id \in TombstoneIds :
        id \in baseline <=>
            \E k \in counts :
                /\ IsLatestListing(docs, counts, k, id)
                /\ Lists(docs[k].removed, id)

\* C20 as stated: only the records whose status is "completed" count; id X is
\* in the baseline if and only if the latest of them that lists X in added or
\* removed lists it in removed.
C20_Original ==
    returned.called =>
        BaselineIsLatest(args.arr,
                         {k \in DOMAIN args.arr : HasStatusCompleted(args.arr[k])},
                         returned.value)

\* C20: the baseline is the replay, by ascending date, of the records whose
\* status is "completed" or is no string at all (a record with a string
\* status other than "completed" has no effect): a record deletes the ids of
\* its added list, then inserts the ids of its removed list, ids being read
\* trimmed and blank ids dropped. Id X is in the baseline if and only if the
\* latest such record that lists X in added or removed lists it in removed.
C20_BaselineReplay ==
    returned.called =>
        /\ BaselineIsLatest(args.arr,
                            {k \in DOMAIN args.arr : IsCompletedCycle(args.arr[k])},
                            returned.value)
        /\ returned.value \subseteq TombstoneIds

\* the collection holds its documents out of date order; the latest one is
\* pending and adds x again, an earlier one without a status removed x after
\* a completed one had added it: x is in the baseline
C20_Witness ==
    /\ returned.called
    /\ Len(args.arr) = 3
    /\ args.arr[1].date.iso = 3
    /\ args.arr[1].status = Pending
    /\ Lists(args.arr[1].added, IdX)
    /\ args.arr[2].date.iso = 1
    /\ args.arr[2].status = Completed
    /\ Lists(args.arr[2].added, IdX)
    /\ args.arr[3].date.iso = 2
    /\ args.arr[3].status = Undef
    /\ Lists(args.arr[3].removed, IdX)
    /\ IdX \in returned.value

-----------------------------------------------------------------------------
(* The filter of the computed removed list (part_003 218-228), under          *)
(* SpecTombstone                                                              *)

\* the entries of list at the places of keep, in the order of the list
SubListAt(list, keep) ==
    [i \in 1..Cardinality(keep) |->
        list[CHOOSE k \in keep : Cardinality({m \in keep : m < k}) = i - 1]]

\* the places of the computed list whose id, taken as it stands, is not in
\* the baseline and occurs at no earlier place
FirstOfRawId(removed, baseline) ==
    {k \in DOMAIN removed :
        /\ removed[k].id \notin baseline
        /\ \A m \in 1..(k - 1) : removed[m].id # removed[k].id}

\* the places of the computed list whose id, as the filter reads it (a
\* string, trimmed, not empty), is not in the baseline and is read at no
\* earlier place; and the places where the filter reads no id
FirstOfReadId(removed, baseline) ==
    {k \in DOMAIN removed :
        \/ ~Truthy(FilterId(removed[k]))
        \/ /\ FilterId(removed[k]) \notin baseline
           /\ \A m \in 1..(k - 1) : FilterId(removed[m]) # FilterId(removed[k])}

\* C21 as stated: the filtered list holds, in the order of the computed list,
\* exactly the first entry of every id that is not in the baseline, so no id
\* occurs twice in it and no id of the baseline occurs in it.
C21_Original ==
    freshRemoved # Undef =>
        /\ freshRemoved.arr =
                SubListAt(rawRemoved,
                          FirstOfRawId(rawRemoved, getCurrentlyRemovedIds(history)))
        /\ \A i \in DOMAIN freshRemoved.arr : \A j \in DOMAIN freshRemoved.arr :
                i < j => freshRemoved.arr[i].id # freshRemoved.arr[j].id

\* C21: within-cycle dedup of removals, ids being read as the filter reads
\* them (a string id, trimmed). The filtered list is the sub-list, in the
\* order of the computed list, of the first entry of every id that is not in
\* the tombstone baseline, together with every entry whose id is blank or no
\* string: among the entries with an id no id occurs more than once and no id
\* of the baseline occurs.
C21_FirstEntryOfFreshIds ==
    freshRemoved # Undef =>
        /\ freshRemoved.arr =
                SubListAt(rawRemoved,
                          FirstOfReadId(rawRemoved, getCurrentlyRemovedIds(history)))
        /\ \A i \in DOMAIN freshRemoved.arr :
                Truthy(FilterId(freshRemoved.arr[i])) =>
                    /\ FilterId(freshRemoved.arr[i]) \notin getCurrentlyRemovedIds(history)
                    /\ \A j \in DOMAIN freshRemoved.arr :
                            i < j => FilterId(freshRemoved.arr[j])
                                        # FilterId(freshRemoved.arr[i])

\* the baseline holds x and the computed list names y twice:
\* only the first entry of y is kept
C21_Witness ==
    /\ freshRemoved # Undef
    /\ getCurrentlyRemovedIds(history) = {IdX}
    /\ rawRemoved = <<Entry(IdY), Entry(IdY)>>
    /\ freshRemoved.arr = <<Entry(IdY)>>

-----------------------------------------------------------------------------
(* The status of the changelog record (part_003 238-306), under SpecSync *)

\* record k is the record of the cycle under way
IsRecordOfCycle(k) == cycle.running /\ cycle.changelogDoc = k

\* every deduplicated entity of the cycle is stored as the cycle holds it,
\* unless a later entity of the cycle was written under the same id
AllWritten ==
    \A i \in DOMAIN cycle.deduped :
        /\ cycle.deduped[i].id \in DOMAIN establishments
        /\ \/ establishments[cycle.deduped[i].id] = cycle.deduped[i]
           \/ \E j \in DOMAIN cycle.deduped :
                j > i /\ cycle.deduped[j].id = cycle.deduped[i].id

\* every removed entity of the cycle is out of the store, unless the cycle
\* wrote an entity under that id
AllDeleted ==
    \A i \in DOMAIN cycle.removed :
        HasStringId(cycle.removed[i]) =>
            \/ cycle.removed[i].id \notin DOMAIN establishments
            \/ \E j \in DOMAIN cycle.deduped : cycle.deduped[j].id = cycle.removed[i].id

\* the step writes to or deletes from the establishments collection
TouchesEstablishments == establishments' # establishments

\* the step turns record k from pending to completed
Completes(k) == changelog[k].status = Pending /\ changelog'[k].status = Completed

\* C22: changelog status protocol. A step that writes or deletes an
\* establishment is taken by a cycle whose changelog record is there with
\* status "pending"; a record turns "completed" only in its own cycle, once
\* all entities of the cycle are written, all its removals deleted, and the
\* duplicates snapshot and the lastRefresh meta carry the date of the cycle;
\* the pending record of a cycle that is no longer running stays pending.
C22_StatusProtocol ==
    [][/\ TouchesEstablishments =>
            /\ cycle.running
            /\ changelog[cycle.changelogDoc].status = Pending
            /\ changelog[cycle.changelogDoc].date = syncTimestamp
       /\ \A k \in DOMAIN changelog :
            /\ Completes(k) =>
                /\ IsRecordOfCycle(k)
                /\ AllWritten
                /\ AllDeleted
                /\ duplicatesDoc # Undef
                /\ duplicatesDoc.date = changelog[k].date
                /\ metaDoc # Undef
                /\ metaDoc.date = changelog[k].date
            /\ (changelog[k].status = Pending /\ ~IsRecordOfCycle(k)) =>
                    changelog'[k].status = Pending
            /\ changelog[k].status = Completed => changelog'[k].status = Completed]_vars

\* a cycle threw after it had written an entity and left its record pending;
\* a later cycle wrote, deleted and completed
C22_Witness ==
    /\ pc = "idle"
    /\ crashes = 1
    /\ \E k \in DOMAIN changelog :
        /\ changelog[k].status = Pending
        /\ Len(changelog[k].added.arr) > 0
        /\ \E m \in DOMAIN changelog :
            /\ m > k
            /\ changelog[m].status = Completed
            /\ Len(changelog[m].removed.arr) > 0
            /\ metaDoc.date = changelog[m].date

-----------------------------------------------------------------------------
(* Specification SpecCompatible: shouldMergeEstablishments on two entries as  *)
(* the dedup loop holds them, each gone through normalizeEstablishmentShape   *)
(* (part_003 184-188)                                                         *)

AchahadaPadded == Str(<<" ", "a", "c", "h", "a", "h", "a", "d", "a">>)

\* an entry of the adapters' output
Described(source, name, city, address, lat, lng) ==
    [id |-> Id("1"), name |-> name, address |-> address, city |-> city,
     source |-> source, lat |-> lat, lng |-> lng,
     categories |-> Arr(<<Restaurant>>), filter |-> Arr(<<Code(29)>>),
     createdAt |-> Undef, updatedAt |-> Iso(1), removedAt |-> Undef]

\* the entry the loop holds: with or without a city, an address, coordinates
ExistingPool ==
    { Described(Achahada, Text("S"), city, address, lat, Deg(235220)) :
        city \in {Text("P"), Undef, Text(" ")},
        address \in {RueUn, Undef},
        lat \in {Deg(4885000), Undef} }

\* the entry that comes in: another source, name, city or address, or the
\* same in other letters; a latitude at, within and beyond the tolerance, none
\* or one that did not parse; with or without a longitude
IncomingPool ==
    { Described(source, name, city, address, lat, lng) :
        source \in {Achahada, AchahadaPadded, AVS},
        name \in {Str(<<"s", " ">>), Text("T")},
        city \in {Text("P"), Str(<<" ", "p">>), Text("L"), Undef, Str(<<>>)},
        address \in {RueUn, RueDeux, Undef},
        lat \in {Deg(4885000), Deg(4885010), Deg(4885011), Undef, NaN},
        lng \in {Deg(235220), Undef} }

InitCompatible ==
    /\ args \in [existing : ExistingPool, incoming : IncomingPool]
    /\ returned = NoCall
    /\ DedupIdle
    /\ GuardIdle
    /\ ChangelogIdle
    /\ TombstoneIdle
    /\ PipelineIdle

\* the check, on the two normalized entries and on the two in the other order
CallShouldMerge ==
    /\ ~returned.called
    /\ \E a \in {normalizeEstablishmentShape(args.existing)} :
        \E b \in {normalizeEstablishmentShape(args.incoming)} :
            returned' = [called |-> TRUE, a |-> a, b |-> b,
                         ab |-> shouldMergeEstablishments(a, b),
                         ba |-> shouldMergeEstablishments(b, a)]
    /\ UNCHANGED <<args, dedupVars, guardVars>>
    /\ UNCHANGED changelogVars
    /\ UNCHANGED tombstoneVars
    /\ UNCHANGED pipelineVars

NextCompatible == CallShouldMerge

SpecCompatible == InitCompatible /\ [][NextCompatible]_vars

\* a text in small letters without the blanks around it; nothing for no text
Comparable(v) == IF IsStr(v) THEN ToLowerCase(Trim(v.str)) ELSE <<>>

\* no text, or an empty one
IsMissing(v) == v = Undef \/ v = Null \/ v = Str(<<>>)

\* both coordinates undefined, or both defined and within 1e-4 of each other
CoordinatesAgree(x, y) ==
    \/ x = Undef /\ y = Undef
    \/ /\ x # Undef
       /\ y # Undef
       /\ Abs(x.num - y.num) <= Tolerance

\* the compatibility the claim describes
DescribedCompatible(a, b) ==
    /\ Comparable(a.source) = Comparable(b.source)
    /\ Comparable(a.name) = Comparable(b.name)
    /\ Comparable(a.city) = Comparable(b.city) \/ IsMissing(a.city) \/ IsMissing(b.city)
    /\ \/ Comparable(a.address) = Comparable(b.address)
       \/ IsMissing(a.address)
       \/ IsMissing(b.address)
    /\ CoordinatesAgree(a.lat, b.lat)
    /\ CoordinatesAgree(a.lng, b.lng)

\* C23: compatibility check. For two entries of the dedup loop,
\* shouldMergeEstablishments is true exactly when the sources are equal and
\* the names are equal (letter case and the blanks around them set aside),
\* the cities match or one is missing, the addresses match or one is missing,
\* and lat and lng are each both undefined or both defined and within 1e-4;
\* the answer is the same with the two entries swapped.
C23_CompatibleExactlyWhen ==
    returned.called =>
        /\ returned.ab <=> DescribedCompatible(returned.a, returned.b)
        /\ returned.ba <=> returned.ab

\* two entries that differ in letter case, the one without a city, their
\* latitudes exactly 1e-4 apart: compatible
C23_Witness ==
    /\ returned.called
    /\ returned.ab
    /\ args.existing.city = Undef
    /\ args.incoming.city = Text("L")
    /\ args.incoming.source = AchahadaPadded
    /\ args.existing.lat = Deg(4885000)
    /\ args.incoming.lat = Deg(4885010)

-----------------------------------------------------------------------------
(* Specification SpecInto: mergeEstablishment(existing, incoming) on two      *)
(* entries as the dedup loop holds them (part_003 184-190)                    *)

\* the entry the loop holds: fields present, absent or empty; a city of one
\* blank; stamped early, late or not at all
TargetPool ==
    { [id |-> Id("1"), name |-> Text("S"), address |-> address, city |-> city,
       source |-> source, lat |-> lat, lng |-> lng,
       categories |-> Arr(<<Restaurant>>), filter |-> Arr(<<Code(29)>>),
       createdAt |-> Iso(0), updatedAt |-> updatedAt, removedAt |-> Undef] :
        address \in {RueUn, Undef, Str(<<>>)},
        city \in {Text("P"), Undef, Text(" ")},
        source \in {Achahada, Undef},
        lat \in {Deg(4885000), Undef},
        lng \in {Deg(235220), Undef},
        updatedAt \in {Iso(1), Iso(3), Undef} }

\* the entry that comes in: with a name, without one, with an empty or a
\* blank one; its other fields present or absent
IncomingEntryPool ==
    { [id |-> Id("2"), name |-> name, address |-> address, city |-> city,
       source |-> source, lat |-> coordinate, lng |-> coordinate,
       categories |-> Arr(<<Boucherie>>), filter |-> Arr(<<Code(30)>>),
       createdAt |-> Iso(2), updatedAt |-> updatedAt, removedAt |-> Undef] :
        name \in {Text("T"), Undef, Str(<<>>), Text(" ")},
        address \in {RueDeux, Undef},
        city \in {Text("L"), Undef},
        source \in {AVS, Undef},
        coordinate \in {Deg(4885007), Undef},
        updatedAt \in {Iso(2), Undef} }

InitInto ==
    /\ args \in [existing : TargetPool, incoming : IncomingEntryPool]
    /\ returned = NoCall
    /\ DedupIdle
    /\ GuardIdle
    /\ ChangelogIdle
    /\ TombstoneIdle
    /\ PipelineIdle

\* mergeEstablishment(existing, normalizedEntry). The function assigns to
\* fields of existing only (utils.ts 236-265): incoming is after the call
\* what it was before.
CallMergeEstablishment ==
    /\ ~returned.called
    /\ \E target \in {normalizeEstablishmentShape(args.existing)} :
        \E incoming \in {normalizeEstablishmentShape(args.incoming)} :
            returned' = [called |-> TRUE, before |-> target, incoming |-> incoming,
                         target |-> mergeEstablishment(target, incoming),
                         incomingAfter |-> incoming]
    /\ UNCHANGED <<args, dedupVars, guardVars>>
    /\ UNCHANGED changelogVars
    /\ UNCHANGED tombstoneVars
    /\ UNCHANGED pipelineVars

NextInto == CallMergeEstablishment

SpecInto == InitInto /\ [][NextInto]_vars

\* a text field that is absent or empty
IsBlankText(v) == v = Undef \/ v = Null \/ v = Str(<<>>)

\* a coordinate that is absent
IsBlankCoordinate(v) == v = Undef \/ v = Null \/ v = NaN

\* first wins, a blank is filled: the field after the merge
FilledFrom(before, incoming, blankBefore, blankIncoming) ==
    IF ~blankBefore THEN before
    ELSE IF ~blankIncoming THEN incoming
    ELSE before

\* the later of two timestamps, either of which may be absent
LaterOf(a, b) ==
    IF ~IsIso(b) THEN a
    ELSE IF ~IsIso(a) THEN b
    ELSE IF b.iso > a.iso THEN b ELSE a

-----------------------------------------------------------------------------
(* Specification SpecKey: createDedupKey on two entries as the dedup loop     *)
(* keys them, each gone through normalizeEstablishmentShape (part_003         *)
(* 184-185)                                                                   *)

NameWithBar == Str(<<"S", "|", "P">>)
CityWithBar == Str(<<"P", "|", "X">>)

\* one entry: a plain name or a name with a bar in it
FirstKeyedPool ==
    { Described(Achahada, name, city, RueUn, lat, Deg(235220)) :
        name \in {Text("S"), NameWithBar},
        city \in {Text("P"), Text("X")},
        lat \in {Deg(4885004), Deg(1), Undef} }

\* the other entry: of either source, at either address; names and cities in
\* other letters, with blanks around them or with a bar in them; latitudes
\* that round alike (48.84996, 48.85000 and 48.85004) or apart (48.85005,
\* 48.85020), just above and just below zero, absent or not parsed; with or
\* without a longitude
SecondKeyedPool ==
    { Described(source, name, city, address, lat, lng) :
        source \in {Achahada, AVS},
        name \in {Text("S"), Str(<<"s", " ">>), NameWithBar, Text("T")},
        city \in {Text("P"), Str(<<" ", "p">>), Text("X"), CityWithBar, Undef},
        address \in {RueUn, RueDeux},
        lat \in {Deg(4884996), Deg(4885000), Deg(4885004), Deg(4885005), Deg(4885020),
                 Deg(1), Deg(-1), Undef, NaN},
        lng \in {Deg(235220), Undef} }

InitKey ==
    /\ args \in [a : FirstKeyedPool, b : SecondKeyedPool]
    /\ returned = NoCall
    /\ DedupIdle
    /\ GuardIdle
    /\ ChangelogIdle
    /\ TombstoneIdle
    /\ PipelineIdle

\* the keys of the two normalized entries, and the check the loop makes when
\* the second meets the first under its key
CallCreateDedupKey ==
    /\ ~returned.called
    /\ \E a \in {normalizeEstablishmentShape(args.a)} :
        \E b \in {normalizeEstablishmentShape(args.b)} :
            returned' = [called |-> TRUE, a |-> a, b |-> b,
                         keyA |-> createDedupKey(a), keyB |-> createDedupKey(b),
                         merge |-> shouldMergeEstablishments(a, b)]
    /\ UNCHANGED <<args, dedupVars, guardVars>>
    /\ UNCHANGED changelogVars
    /\ UNCHANGED tombstoneVars
    /\ UNCHANGED pipelineVars

NextKey == CallCreateDedupKey

SpecKey == InitKey /\ [][NextKey]_vars

\* the coordinate n * 1e-5 rounded to four decimals, in steps of 1e-4
RoundedTo4(n) == IF n < 0 THEN 0 - ((5 - n) \div 10) ELSE (n + 5) \div 10

\* both coordinates missing, or both finite and equal after rounding
SameRounded(x, y) ==
    \/ ~IsNum(x) /\ ~IsNum(y)
    \/ IsNum(x) /\ IsNum(y) /\ RoundedTo4(x.num) = RoundedTo4(y.num)

\* what the claim lets the key stand for
SameIdentity(a, b) ==
    /\ Comparable(a.name) = Comparable(b.name)
    /\ Comparable(a.city) = Comparable(b.city)
    /\ SameRounded(a.lat, b.lat)
    /\ SameRounded(a.lng, b.lng)

\* C25 as stated: the keys of two entries are equal if and only if their
\* trimmed, lowercased names are equal, their trimmed, lowercased cities are
\* equal, and lat and lng are each both missing or both finite and equal
\* after rounding to 4 decimals.
C25_Original ==
    returned.called =>
        (returned.keyA = returned.keyB <=> SameIdentity(returned.a, returned.b))

-----------------------------------------------------------------------------
(* The accumulator of the dedup loop (part_003 180-202), under SpecDedup *)

\* C26: at every turn of the dedup loop, and so once it has consumed its
\* input list, no two entities of the accumulator have the same identity key,
\* and the key of every entity is still the key it was entered under: merging
\* into an entry never changes the key of the entry.
C26_KeysDistinct ==
    /\ \A i \in DOMAIN seen.values :
            createDedupKey(seen.values[i]) = seen.keys[i]
    /\ \A i \in DOMAIN seen.values : \A j \in DOMAIN seen.values :
            i # j => createDedupKey(seen.values[i]) # createDedupKey(seen.values[j])

\* the loop is through with three listings, one of them merged into another
\* under a name in other letters; two entities of the output carry one id
C26_Witness ==
    /\ seen.at = 3
    /\ Len(normalized) = 3
    /\ Len(seen.values) = 2
    /\ duplicates = <<>>
    /\ seen.values[1].id = seen.values[2].id
    /\ seen.values[1].name # normalized[1].name
    /\ createDedupKey(seen.values[1]) # createDedupKey(seen.values[2])

\* the first input record of the turns taken whose normalized form has the key
FirstWithKey(key) ==
    CHOOSE i \in 1..seen.at :
        /\ createDedupKey(normalizeEstablishmentShape(normalized[i])) = key
        /\ \A m \in 1..(i - 1) :
                createDedupKey(normalizeEstablishmentShape(normalized[m])) # key

\* C27: dedup accounts for every input record. After each turn of the dedup
\* loop the number of canonical entities plus the number of merges performed
\* plus the number of duplicate pairs recorded is the number of input records
\* consumed, and the canonical entity of each key has the id of the first
\* input record that had that key.
C27_EveryRecordAccounted ==
    /\ Len(seen.values) + seen.merges + Len(duplicates) = seen.at
    /\ \A k \in DOMAIN seen.values :
            /\ \E i \in 1..seen.at :
                    createDedupKey(normalizeEstablishmentShape(normalized[i])) = seen.keys[k]
            /\ seen.values[k].id = normalized[FirstWithKey(seen.keys[k])].id

\* three records consumed: one entered, one merged into it, one flagged
C27_Witness ==
    /\ seen.at = 3
    /\ Len(seen.values) = 1
    /\ seen.merges = 1
    /\ Len(duplicates) = 1
    /\ normalized[2].id # normalized[1].id
    /\ normalized[3].id # normalized[1].id
    /\ seen.values[1].id = normalized[1].id

-----------------------------------------------------------------------------
(* The three lists of a result of computeChangelogEntries, under Spec *)

\* the ids of the entries of a list
IdsIn(list) == {list[k].id : k \in DOMAIN list}

\* C28: in every result of computeChangelogEntries no id occurs both in added
\* and in removed, no id of removed or of added occurs in modified, and no id
\* of a current entity occurs in removed.
C28_ListsDisjoint ==
    result.called =>
        /\ IdsIn(result.added) \cap IdsIn(result.removed) = {}
        /\ IdsIn(result.removed) \cap IdsIn(result.modified) = {}
        /\ IdsIn(result.added) \cap IdsIn(result.modified) = {}
        /\ IdsIn(result.args.current) \cap IdsIn(result.removed) = {}
        /\ IdsIn(current) \cap IdsIn(result.removed) = {}

\* a call that filled the three lists: an entity without an id was added, one
\* was modified, another was removed
C28_Witness ==
    /\ result.called
    /\ Len(result.added) = 1
    /\ result.added[1].id = Undef
    /\ Len(result.modified) = 1
    /\ result.modified[1].id = Id("1")
    /\ Len(result.removed) = 1
    /\ result.removed[1].id = Id("2")

-----------------------------------------------------------------------------
(* The coordinates of two entries that meet under one key, under SpecKey *)

\* the two entries differ in source, name, city or address, as the
\* compatibility check reads them
TextsMismatch(a, b) ==
    \/ ~SameComparable(a.source, b.source)
    \/ ~SameComparable(a.name, b.name)
    \/ ~(SameComparable(a.city, b.city) \/ ~Truthy(a.city) \/ ~Truthy(b.city))
    \/ ~(SameComparable(a.address, b.address) \/ ~Truthy(a.address) \/ ~Truthy(b.address))

\* C29: the coordinate part of the compatibility check never fails on a key
\* collision. For any two normalized entities with equal identity keys, lat
\* and lng are each both undefined or both finite and at most 1e-4 apart, and
\* areNumbersClose holds of them; so when the check fails on a collision, the
\* source, the name, the city or the address mismatches.
C29_CoordinatesNeverFail ==
    (returned.called /\ returned.keyA = returned.keyB) =>
        /\ CoordinatesAgree(returned.a.lat, returned.b.lat)
        /\ CoordinatesAgree(returned.a.lng, returned.b.lng)
        /\ areNumbersClose(returned.a.lat, returned.b.lat)
        /\ areNumbersClose(returned.a.lng, returned.b.lng)
        /\ ~returned.merge => TextsMismatch(returned.a, returned.b)

\* two entries of two sources under one key, their latitudes 0.00008 apart
\* towards the two ends of the rounding interval of 48.8500: flagged, not
\* merged
C29_Witness ==
    /\ returned.called
    /\ returned.keyA = returned.keyB
    /\ returned.a.lat = Deg(4885004)
    /\ returned.b.lat = Deg(4884996)
    /\ returned.b.source = AVS
    /\ ~returned.merge

-----------------------------------------------------------------------------
(* The establishments collection at the end of a cycle, under SpecSync *)

\* C30: at the step that turns the changelog record of a cycle "completed",
\* the ids stored in the establishments collection are the ids of the
\* deduplicated set of the cycle: every deduplicated entity is stored under
\* its id, and no entity of the computed removed list is stored, whether the
\* tombstone filter kept its removal report or dropped it.
C30_StoreIsDedupedSet ==
    [][\A k \in DOMAIN changelog :
            Completes(k) =>
                /\ DOMAIN establishments' = IdsIn(cycle.deduped)
                /\ \A id \in DOMAIN establishments' :
                        \E i \in DOMAIN cycle.deduped : establishments'[id] = cycle.deduped[i]
                /\ \A i \in DOMAIN cycle.removed :
                        cycle.removed[i].id \notin DOMAIN establishments']_vars

\* a cycle is about to complete: it found a stored entity gone from the
\* sources, the tombstone filter dropped the report (an earlier completed
\* cycle had reported the id, and the cycle that stored it again threw), and
\* the entity is deleted all the same
C30_Witness ==
    /\ pc = "status"
    /\ crashes = 1
    /\ Len(cycle.removed) = 1
    /\ cycle.freshRemoved = <<>>
    /\ \E j \in DOMAIN cycle.oldData : cycle.oldData[j].id = cycle.removed[1].id
    /\ cycle.removed[1].id \notin DOMAIN establishments
    /\ DOMAIN establishments = IdsIn(cycle.deduped)

====
